---- MODULE Spec2Model ----
(***************************************************************************)
(* Market-session state machine, streaming quote cache and alerting cycle  *)
(* of the option monitor (src/IBApp.py, src/alert_engine.py).              *)
(*                                                                         *)
(* Time is counted in whole seconds.  `mono` is time.monotonic(); the true *)
(* UTC epoch second is epoch0 + mono.  Optional values are sequences:      *)
(* None is << >> and a present value x is <<x>>.  Floats delivered by the  *)
(* feed are tagged records (Num, NaN, PosInf, NegInf, PyNone).             *)
(***************************************************************************)
EXTENDS Integers, Sequences, FiniteSets, TLC

VARIABLES
    epoch0,                 \* UTC epoch second at mono = 0 (fixed per run)
    mono,                   \* time.monotonic(), seconds
    last_server_time,       \* IBApp._last_server_time
    server_time_ts,         \* IBApp._server_time_ts
    current_time_queue,     \* IBApp.current_time_queue
    current_time_available, \* IBApp.current_time_available (Event flag)
    req_id,                 \* IBApp.req_id
    tickers,                \* IBApp.tickers: request id -> field -> value
    stream_key_map,         \* IBApp._stream_key_map: request id -> key
    stream_data,            \* IBApp._stream_data: key -> field -> value
    ticks,                  \* number of tick callbacks delivered so far
    cb,                     \* where the callback thread is in a tick handler
    mt,                     \* where the monitoring thread is in unsubscribe
                            \* or in _next_rid
    handed,                 \* the ids _next_rid returned, statement-level runs
    events,                 \* the Events blocking calls wait on, with the
                            \* lists their callbacks fill
    sent,                   \* the requests sent to the broker, in order
    tz_offset,              \* UTC offset of the host's local time zone, seconds
    account,                \* the positions the brokerage account holds
    market_status,          \* IBApp.market_status
    pc,                     \* where the monitoring thread is in main.py
    cfgs,                   \* AlertEngine.cfgs: key -> contract
    init_price,             \* AlertEngine.init_price
    prev_closes,            \* AlertEngine.prev_closes
    sent_alerts,            \* AlertEngine.sent_alerts: alert id -> trading date
    trading_date,           \* AlertEngine.trading_date (day number)
    market_closed_notified, \* AlertEngine.market_closed_notified
    last_market_status_check, \* AlertEngine.last_market_status_check
    last_positions_update,  \* AlertEngine.last_positions_update
    sink,                   \* what line_push was called with, per condition,
                            \* and whether the endpoint took it
    op,                     \* name of the operation that ran last
    ret,                    \* what it returned
    obs                     \* what it was called with and what it met

timeVars == <<last_server_time, server_time_ts, current_time_queue,
              current_time_available>>
storeVars == <<tickers, stream_key_map, stream_data, ticks>>
tickVars == <<req_id, storeVars>>
frameVars == <<cb, mt, handed>>
wireVars == <<events, sent>>
envVars == <<epoch0, tz_offset, account>>
sessVars == <<market_status>>
engVars == <<pc, cfgs, init_price, prev_closes, sent_alerts, trading_date,
             market_closed_notified, last_market_status_check,
             last_positions_update, sink>>
obsVars == <<op, ret, obs>>
vars == <<envVars, wireVars, frameVars, mono, timeVars, tickVars, sessVars, engVars,
          obsVars>>

----------------------------------------------------------------------------
(* Optional values *)

None == << >>
Some(x) == <<x>>
Val(o) == o[1]

----------------------------------------------------------------------------
(* Bounds of the model *)

\* time.monotonic() when the process starts
BootUptime == 100
\* the runs follow the program for Window seconds after it starts and for
\* Window seconds LongSleep later
Window == 150

\* UTC epoch seconds at mono = 0: the process starts BootUptime later, on
\* Thursday 2025-07-24 at 10:00 New York time, or on Friday 2025-07-25 at
\* 23:58:30 New York time
ThuMorning == 1753365500
FriNight == 1753502210
StartEpochs == {ThuMorning}
SessionEpochs == {ThuMorning, FriNight}
\* UTC offset of the host's time zone (Asia/Taipei)
HostUtcOffset == 28800

----------------------------------------------------------------------------
(* Server-Time Oracle: IBApp.get_server_time *)

\* IBApp._server_time_extrapolate_max = 6 * 3600
ServerTimeExtrapolateMax == 21600
\* get_server_time defaults
DefaultRetry == 3
DefaultTimeout == 5
DefaultSoftCacheAge == 90
\* time.sleep(0.2) between attempts: below the one-second resolution
RetrySleep == 0

\* the instants the runs cover
LongSleep == ServerTimeExtrapolateMax
ElapseSteps == {60, LongSleep}

InWindow(m) ==
    \/ m - BootUptime \in 0..Window
    \/ m - BootUptime - LongSleep \in 0..Window

\* the answer of the server to a request it receives at monotonic instant m
ServerClock(m) == epoch0 + m

\* FailurePath adding the age in the soft-cache branch too
FailurePath_SoftDrift(last, ts, now, extrapolate, soft_cache_age, hard_cache_age) ==
    IF last # None
    THEN LET age == now - ts IN
         IF age < soft_cache_age
         THEN [ret |-> Some(Val(last) + age), path |-> "soft"]
         ELSE IF extrapolate /\ age < ServerTimeExtrapolateMax
         THEN [ret |-> Some(Val(last) + age), path |-> "extrapolated"]
         ELSE IF hard_cache_age # None /\ age < Val(hard_cache_age)
         THEN [ret |-> last, path |-> "hard"]
         ELSE [ret |-> None, path |-> "none"]
    ELSE [ret |-> None, path |-> "none"]

\* FailurePath returning the cached value in the extrapolation branch
FailurePath_NoDrift(last, ts, now, extrapolate, soft_cache_age, hard_cache_age) ==
    IF last # None
    THEN LET age == now - ts IN
         IF age < soft_cache_age
         THEN [ret |-> last, path |-> "soft"]
         ELSE IF extrapolate /\ age < ServerTimeExtrapolateMax
         THEN [ret |-> last, path |-> "extrapolated"]
         ELSE IF hard_cache_age # None /\ age < Val(hard_cache_age)
         THEN [ret |-> last, path |-> "hard"]
         ELSE [ret |-> None, path |-> "none"]
    ELSE [ret |-> None, path |-> "none"]

\* FailurePath ignoring hard_cache_age
FailurePath_NoHard(last, ts, now, extrapolate, soft_cache_age, hard_cache_age) ==
    IF last # None
    THEN LET age == now - ts IN
         IF age < soft_cache_age
         THEN [ret |-> last, path |-> "soft"]
         ELSE IF extrapolate /\ age < ServerTimeExtrapolateMax
         THEN [ret |-> Some(Val(last) + age), path |-> "extrapolated"]
         ELSE IF hard_cache_age # None /\ age < Val(hard_cache_age)
         THEN [ret |-> None, path |-> "hard"]
         ELSE [ret |-> None, path |-> "none"]
    ELSE [ret |-> None, path |-> "none"]

\* The failure tail of get_server_time (after the for loop): the value
\* returned and the branch taken, for a cache (last, ts) read at instant now.
FailurePath(last, ts, now, extrapolate, soft_cache_age, hard_cache_age) ==
    IF last # None
    THEN LET age == now - ts IN
         IF age < soft_cache_age
         THEN [ret |-> last, path |-> "soft"]
         ELSE IF extrapolate /\ age < ServerTimeExtrapolateMax
         THEN [ret |-> Some(Val(last) + age), path |-> "extrapolated"]
         ELSE IF hard_cache_age # None /\ age < Val(hard_cache_age)
         THEN [ret |-> last, path |-> "hard"]
         ELSE [ret |-> None, path |-> "none"]
    ELSE [ret |-> None, path |-> "none"]

\* get_server_time stamping the cache on every return
GetServerTime_StampOnFailure(st, a, okAt, answer) ==
    LET now == st.mono + (IF okAt > 0 THEN okAt - 1 ELSE a.retry)
                         * (a.timeout + RetrySleep)
        f == FailurePath(st.last, st.ts, now, a.extrapolate,
                         a.soft_cache_age, a.hard_cache_age)
    IN [ret |-> IF okAt > 0 THEN Some(answer) ELSE f.ret,
        path |-> IF okAt > 0 THEN "fresh" ELSE f.path,
        mono |-> now,
        last |-> IF okAt > 0 THEN Some(answer) ELSE f.ret,
        ts |-> now,
        queue |-> << >>, available |-> okAt > 0]

\* get_server_time as a function of the state it reads and of what the
\* broker does: okAt = 0 when every wait times out, else the attempt whose
\* wait currentTime satisfies with the epoch second `answer`.
\* Each attempt clears the event and the queue; a satisfied wait pops the
\* answer currentTime queued and leaves the event set.
GetServerTime(st, a, okAt, answer) ==
    IF okAt > 0
    THEN LET now == st.mono + (okAt - 1) * (a.timeout + RetrySleep) IN
         [ret |-> Some(answer), path |-> "fresh",
          mono |-> now,
          last |-> Some(answer), ts |-> now,
          queue |-> << >>, available |-> TRUE]
    ELSE LET now == st.mono + a.retry * (a.timeout + RetrySleep)
             f == FailurePath(st.last, st.ts, now, a.extrapolate,
                              a.soft_cache_age, a.hard_cache_age)
         IN [ret |-> f.ret, path |-> f.path,
             mono |-> now,
             last |-> st.last, ts |-> st.ts,
             queue |-> IF a.retry > 0 THEN << >> ELSE st.queue,
             available |-> IF a.retry > 0 THEN FALSE ELSE st.available]

\* the part of the state get_server_time reads
TimeState ==
    [mono |-> mono, last |-> last_server_time, ts |-> server_time_ts,
     queue |-> current_time_queue, available |-> current_time_available]

\* What the broker may do during a call: every wait times out, or the
\* request of attempt k is answered with the server's clock.
TimeOutcomes(st, a) ==
    {[okAt |-> 0, answer |-> 0]} \cup
    {[okAt |-> k,
      answer |-> ServerClock(st.mono + (k - 1) * (a.timeout + RetrySleep))] :
        k \in 1..a.retry}

\* the arguments get_server_time is called with
TimeArgs ==
    [retry : {DefaultRetry}, timeout : {DefaultTimeout},
     extrapolate : BOOLEAN, soft_cache_age : {DefaultSoftCacheAge},
     hard_cache_age : {None, Some(600), Some(86400)}]

\* a call of get_server_time by the monitoring thread
GetServerTimeCall ==
    \E a \in TimeArgs : \E o \in TimeOutcomes(TimeState, a) :
        LET r == GetServerTime(TimeState, a, o.okAt, o.answer) IN
        /\ InWindow(r.mono)
        /\ mono' = r.mono
        /\ last_server_time' = r.last
        /\ server_time_ts' = r.ts
        /\ current_time_queue' = r.queue
        /\ current_time_available' = r.available
        /\ op' = "get_server_time"
        /\ ret' = r.ret
        /\ obs' = [args |-> a, all_failed |-> (o.okAt = 0), path |-> r.path]
        /\ UNCHANGED <<envVars, wireVars, frameVars, tickVars, sessVars, engVars>>

\* time passes while the monitoring thread sleeps

Elapse ==
    \E d \in ElapseSteps :
        /\ InWindow(mono + d)
        /\ mono' = mono + d
        /\ op' = "sleep"
        /\ ret' = None
        /\ obs' = [args |-> d]
        /\ UNCHANGED <<envVars, wireVars, frameVars, timeVars, tickVars, sessVars, engVars>>

----------------------------------------------------------------------------
(* Floats and None as the feed delivers them *)

Num(v) == [t |-> "num", v |-> v]
NaN == [t |-> "nan", v |-> 0]
PosInf == [t |-> "inf", v |-> 1]
NegInf == [t |-> "inf", v |-> -1]
PyNone == [t |-> "none", v |-> 0]

\* x < 0 as Python evaluates it for a float
LtZero(x) == (x.t = "num" /\ x.v < 0) \/ x = NegInf
\* math.isfinite(x)
IsFinite(x) == x.t = "num"

(* Dictionaries: functions whose domain is the set of keys present *)

EmptyDict == << >>
\* d[k] = v
Put(d, k, v) == [x \in DOMAIN d \cup {k} |-> IF x = k THEN v ELSE d[x]]
\* d.get(k, default)
Get(d, k, default) == IF k \in DOMAIN d THEN d[k] ELSE default
\* d.pop(k, None)
Pop(d, k) == [x \in DOMAIN d \ {k} |-> d[x]]
\* d.setdefault(k, {})[f] = v
SetField(d, k, f, v) == Put(d, k, Put(Get(d, k, EmptyDict), f, v))
\* d.get(k, {}).get(f): the value as an optional
Lookup(d, k, f) ==
    IF k \in DOMAIN d /\ f \in DOMAIN d[k] THEN Some(d[k][f]) ELSE None

----------------------------------------------------------------------------
(* Tick Normalizer and Subscription Registry: IBApp *)

\* IBApp.FIELD_MAP
FIELD_MAP ==
    0 :> "bid_size" @@ 1 :> "bid" @@ 2 :> "ask" @@ 3 :> "ask_size" @@
    4 :> "last" @@ 5 :> "last_size" @@ 6 :> "high" @@ 7 :> "low" @@
    8 :> "close" @@ 9 :> "prev_close" @@ 14 :> "open" @@
    27 :> "bid_iv" @@ 28 :> "ask_iv" @@ 31 :> "last_iv" @@
    49 :> "call_oi" @@ 50 :> "put_oi" @@ 55 :> "call_vol" @@ 56 :> "put_vol" @@
    66 :> "bid" @@ 67 :> "ask" @@ 68 :> "last" @@ 69 :> "bid_size" @@
    70 :> "ask_size" @@ 71 :> "last_size" @@ 72 :> "high" @@ 73 :> "low" @@
    74 :> "volume" @@ 75 :> "prev_close"

\* self.FIELD_MAP.get(field, f"p{field}")
FieldKey(field) ==
    IF field \in DOMAIN FIELD_MAP THEN FIELD_MAP[field] ELSE "p" \o ToString(field)

\* the fields tickPrice checks the price of
CheckedPriceFields == {1, 2, 4, 6, 7, 9, 14, 37, 66, 67, 68, 72, 73, 75, 76}

\* the stores the tick handlers write
TickStores ==
    [tickers |-> tickers, key_map |-> stream_key_map, data |-> stream_data]

\* a tickPrice that writes the per-request store only
TickPrice_NoMirror(s, reqId, field, price) ==
    IF field \in CheckedPriceFields /\ (price = PyNone \/ LtZero(price))
    THEN s
    ELSE [s EXCEPT !.tickers = SetField(@, reqId, FieldKey(field), price)]

\* IBApp.tickPrice
TickPrice(s, reqId, field, price) ==
    IF field \in CheckedPriceFields /\ (price = PyNone \/ LtZero(price))
    THEN s
    ELSE LET key == FieldKey(field) IN
         [s EXCEPT !.tickers = SetField(@, reqId, key, price),
                   !.data = IF reqId \in DOMAIN s.key_map
                            THEN SetField(@, s.key_map[reqId], key, price) ELSE @]

\* f"size_{field}" and f"g{field}"
SizeKey(field) == "size_" \o ToString(field)
GenericKey(field) == "g" \o ToString(field)

\* IBApp.tickSize
TickSize(s, reqId, field, size) ==
    [s EXCEPT !.tickers = SetField(@, reqId, SizeKey(field), size),
              !.data = IF reqId \in DOMAIN s.key_map
                       THEN SetField(@, s.key_map[reqId], SizeKey(field), size)
                       ELSE @]

\* IBApp.tickGeneric
TickGeneric(s, reqId, field, value) ==
    [s EXCEPT !.tickers = SetField(@, reqId, GenericKey(field), value),
              !.data = IF reqId \in DOMAIN s.key_map
                       THEN SetField(@, s.key_map[reqId], GenericKey(field), value)
                       ELSE @]

\* the components of a greek update, in the order the handler writes them
GreekKeys == {"iv", "delta", "gamma", "vega", "theta", "undPx"}
\* the components kept per quote side
SideGreekKeys == {"iv", "delta", "gamma", "vega", "theta"}

\* _clean: -1 and non-finite numbers become None
Clean(x) ==
    IF x = PyNone THEN PyNone
    ELSE IF x = Num(-1) \/ ~IsFinite(x) THEN PyNone
    ELSE x

\* the side table without the delayed tick types 80 to 83
Side_LiveOnly(field) ==
    CASE field = 10 -> "bid"
      [] field = 11 -> "ask"
      [] field = 12 -> "last"
      [] field = 13 -> "model"
      [] OTHER -> ""

\* the quote side of a tick type, "" when it has none
Side(field) ==
    CASE field \in {10, 80} -> "bid"
      [] field \in {11, 81} -> "ask"
      [] field \in {12, 82} -> "last"
      [] field \in {13, 83} -> "model"
      [] OTHER -> ""

\* f"{side}_{key}"
SideKey(side, key) == side \o "_" \o key

\* IBApp.tickOptionComputation; g maps each component to the value received
TickOptionComputation(s, reqId, field, g) ==
    LET c == [k \in GreekKeys |-> Clean(g[k])]
        side == Side(field)
        valid == {k \in GreekKeys : c[k] # PyNone}
        sided == IF side # "" THEN valid \cap SideGreekKeys ELSE { }
        b0 == Get(s.tickers, reqId, EmptyDict)
        b1 == [x \in DOMAIN b0 \cup valid |-> IF x \in valid THEN c[x] ELSE b0[x]]
        bucket ==
            [x \in DOMAIN b1 \cup {SideKey(side, k) : k \in sided} |->
                IF \E k \in sided : x = SideKey(side, k)
                THEN c[CHOOSE k \in sided : x = SideKey(side, k)]
                ELSE b1[x]]
        copied == (GreekKeys \cap DOMAIN bucket) \cup
                  (IF side # ""
                   THEN {SideKey(side, k) : k \in SideGreekKeys} \cap DOMAIN bucket
                   ELSE { })
        out0 == Get(s.data, s.key_map[reqId], EmptyDict)
        out == [x \in DOMAIN out0 \cup copied |->
                   IF x \in copied THEN bucket[x] ELSE out0[x]]
    IN [s EXCEPT !.tickers = Put(@, reqId, bucket),
                 !.data = IF reqId \in DOMAIN s.key_map
                          THEN Put(@, s.key_map[reqId], out) ELSE @]

\* IBApp._next_rid: the id handed out
NextRid == req_id

\* IBApp.subscribe(con, is_opt, key)
Subscribe(key) ==
    /\ req_id' = req_id + 1
    /\ stream_key_map' = Put(stream_key_map, NextRid, key)
    /\ UNCHANGED <<tickers, stream_data>>

\* an unsubscribe that leaves the snapshot of the key in place
Unsubscribe_KeepsSnapshot(rid) ==
    IF rid \in DOMAIN stream_key_map
    THEN /\ stream_key_map' = Pop(stream_key_map, rid)
         /\ UNCHANGED <<req_id, tickers, stream_data>>
    ELSE UNCHANGED <<req_id, tickers, stream_key_map, stream_data>>

\* unsubscribe, lines 162-163: cancelMktData(rid) is sent
Cancels(rid) == rid \in DOMAIN stream_key_map

\* IBApp.unsubscribe(rid)
Unsubscribe(rid) ==
    IF rid \in DOMAIN stream_key_map
    THEN /\ stream_key_map' = Pop(stream_key_map, rid)
         /\ stream_data' = Pop(stream_data, stream_key_map[rid])
         /\ UNCHANGED <<req_id, tickers>>
    ELSE UNCHANGED <<req_id, tickers, stream_key_map, stream_data>>

(* Bounds and inputs of the tick runs *)

\* request ids handed out per run
MaxRid == 2
\* tick callbacks per run
MaxTicks == 3

\* the keys subscribed to
StreamKeys == {"SPY", "SPY_P_600.0_20250815"}
\* the tick types and prices tickPrice is called with
PriceFieldInputs == {1, 66, 8, 37}
PriceInputs == {PyNone, Num(-1), NegInf, NaN, PosInf, Num(5), Num(7)}
\* the tick types and components tickOptionComputation is called with
GreekFieldInputs == {10, 83, 53}
AllValid(d) ==
    [iv |-> Num(20), delta |-> Num(d), gamma |-> Num(5), vega |-> Num(10),
     theta |-> Num(-3), undPx |-> Num(600)]
GreekInputs ==
    {AllValid(30), AllValid(50)} \cup
    {[AllValid(30) EXCEPT !.delta = x] : x \in {Num(-1), NaN, PyNone}} \cup
    {[k \in GreekKeys |-> Num(-1)]}

\* the request ids handed out so far
IssuedRids == 1..(req_id - 1)

SubscribeCall ==
    \E key \in StreamKeys :
        /\ req_id <= MaxRid
        /\ Subscribe(key)
        /\ op' = "subscribe"
        /\ ret' = Some(NextRid)
        /\ obs' = [key |-> key]
        /\ UNCHANGED <<envVars, wireVars, frameVars, mono, timeVars, ticks, sessVars, engVars>>

UnsubscribeCall ==
    \E rid \in IssuedRids :
        /\ Unsubscribe(rid)
        /\ op' = "unsubscribe"
        /\ ret' = None
        /\ obs' = [reqId |-> rid, cancel |-> Cancels(rid)]
        /\ UNCHANGED <<envVars, wireVars, frameVars, mono, timeVars, ticks, sessVars, engVars>>

\* a tick handler ran and left the stores as s
StoresBecome(s) ==
    /\ tickers' = s.tickers
    /\ stream_data' = s.data
    /\ ticks' = ticks + 1
    /\ UNCHANGED <<req_id, stream_key_map>>

TickPriceCall ==
    \E rid \in IssuedRids, field \in PriceFieldInputs, price \in PriceInputs :
        /\ ticks < MaxTicks
        /\ StoresBecome(TickPrice(TickStores, rid, field, price))
        /\ op' = "tickPrice"
        /\ ret' = None
        /\ obs' = [reqId |-> rid, field |-> field, price |-> price]
        /\ UNCHANGED <<envVars, wireVars, frameVars, mono, timeVars, sessVars, engVars>>

TickOptionComputationCall ==
    \E rid \in IssuedRids, field \in GreekFieldInputs, g \in GreekInputs :
        /\ ticks < MaxTicks
        /\ StoresBecome(TickOptionComputation(TickStores, rid, field, g))
        /\ op' = "tickOptionComputation"
        /\ ret' = None
        /\ obs' = [reqId |-> rid, field |-> field, greeks |-> g]
        /\ UNCHANGED <<envVars, wireVars, frameVars, mono, timeVars, sessVars, engVars>>

(* Inputs of the quote-side runs *)

\* the live and the delayed tick type of the bid computation, the delayed
\* tick type of the model computation, and a tick type without a side
SideFieldInputs == {10, 80, 83, 53}
\* complete greeks, and greeks whose delta and iv are unavailable
SideGreekInputs ==
    {AllValid(30), AllValid(50),
     [AllValid(40) EXCEPT !.delta = Num(-1), !.iv = NaN]}

\* tickOptionComputation called with the tick types of the quote sides on
\* the request made last
SidedGreek ==
    \E rid \in IssuedRids, field \in SideFieldInputs, g \in SideGreekInputs :
        /\ rid = req_id - 1
        /\ ticks < MaxTicks
        /\ StoresBecome(TickOptionComputation(TickStores, rid, field, g))
        /\ op' = "tickOptionComputation"
        /\ ret' = None
        /\ obs' = [reqId |-> rid, field |-> field, greeks |-> g]
        /\ UNCHANGED <<envVars, wireVars, frameVars, mono, timeVars, sessVars, engVars>>

(* The registry and the four tick handlers, called one after the other *)

\* the ticks of the registry runs: a bid and a close, rejected or accepted;
\* a bid size; an option volume; model greeks, complete or without delta
RegPriceInputs == {<<66, Num(-1)>>, <<66, Num(5)>>, <<8, Num(-1)>>}
RegSizeInputs == {<<0, Num(3)>>}
RegGenericInputs == {<<24, Num(20)>>}
RegGreekInputs == {AllValid(30), [AllValid(50) EXCEPT !.delta = Num(-1)]}

RegPrice ==
    \E rid \in IssuedRids, t \in RegPriceInputs :
        /\ ticks < MaxTicks
        /\ StoresBecome(TickPrice(TickStores, rid, t[1], t[2]))
        /\ op' = "tickPrice"
        /\ ret' = None
        /\ obs' = [reqId |-> rid, field |-> t[1], price |-> t[2]]
        /\ UNCHANGED <<envVars, wireVars, frameVars, mono, timeVars, sessVars, engVars>>

RegSize ==
    \E rid \in IssuedRids, t \in RegSizeInputs :
        /\ ticks < MaxTicks
        /\ StoresBecome(TickSize(TickStores, rid, t[1], t[2]))
        /\ op' = "tickSize"
        /\ ret' = None
        /\ obs' = [reqId |-> rid, field |-> t[1], size |-> t[2]]
        /\ UNCHANGED <<envVars, wireVars, frameVars, mono, timeVars, sessVars, engVars>>

RegGeneric ==
    \E rid \in IssuedRids, t \in RegGenericInputs :
        /\ ticks < MaxTicks
        /\ StoresBecome(TickGeneric(TickStores, rid, t[1], t[2]))
        /\ op' = "tickGeneric"
        /\ ret' = None
        /\ obs' = [reqId |-> rid, field |-> t[1], value |-> t[2]]
        /\ UNCHANGED <<envVars, wireVars, frameVars, mono, timeVars, sessVars, engVars>>

RegGreek ==
    \E rid \in IssuedRids, g \in RegGreekInputs :
        /\ ticks < MaxTicks
        /\ StoresBecome(TickOptionComputation(TickStores, rid, 13, g))
        /\ op' = "tickOptionComputation"
        /\ ret' = None
        /\ obs' = [reqId |-> rid, field |-> 13, greeks |-> g]
        /\ UNCHANGED <<envVars, wireVars, frameVars, mono, timeVars, sessVars, engVars>>

(* tickPrice on the callback thread and unsubscribe on the monitoring
   thread, statement by statement: the two threads share _stream_key_map
   and _stream_data and take no lock *)

\* a thread outside the handlers and the registry operations
Idle == [at |-> "idle"]

\* the tick types and prices of the interleaved runs
RaceFieldInputs == {66, 8}
RacePriceInputs == {Num(-1), Num(5)}

\* subscribe, called between two registry operations of the monitoring thread
SubscribeStep ==
    /\ mt = Idle
    /\ SubscribeCall

\* tickPrice, lines 172-177: the price check, the write of self.tickers and
\* the test `reqId in self._stream_key_map`
TickPriceTest ==
    \E rid \in IssuedRids, field \in RaceFieldInputs, price \in RacePriceInputs :
        /\ cb = Idle
        /\ ticks < MaxTicks
        /\ ticks' = ticks + 1
        /\ IF field \in CheckedPriceFields /\ (price = PyNone \/ LtZero(price))
           THEN UNCHANGED <<tickers, cb>>
           ELSE /\ tickers' = SetField(tickers, rid, FieldKey(field), price)
                /\ cb' = IF rid \in DOMAIN stream_key_map
                         THEN [at |-> "lookup", reqId |-> rid,
                               key |-> FieldKey(field), price |-> price]
                         ELSE Idle
        /\ op' = "tickPrice"
        /\ ret' = None
        /\ obs' = [reqId |-> rid, field |-> field, price |-> price]
        /\ UNCHANGED <<envVars, wireVars, mt, handed, mono, timeVars, req_id,
                       stream_key_map, stream_data, sessVars, engVars>>

\* tickPrice, line 178: k = self._stream_key_map[reqId], a KeyError when the
\* id is gone
TickPriceLookup ==
    /\ cb.at = "lookup"
    /\ IF cb.reqId \in DOMAIN stream_key_map
       THEN /\ cb' = [at |-> "store", k |-> stream_key_map[cb.reqId],
                      key |-> cb.key, price |-> cb.price]
            /\ ret' = None
       ELSE /\ cb' = Idle
            /\ ret' = Some("KeyError")
    /\ op' = "tickPrice"
    /\ obs' = [line |-> 178]
    /\ UNCHANGED <<envVars, wireVars, mt, handed, mono, timeVars, tickVars, sessVars,
                   engVars>>

\* tickPrice, line 179: self._stream_data.setdefault(k, {})[key] = price
TickPriceStore ==
    /\ cb.at = "store"
    /\ stream_data' = SetField(stream_data, cb.k, cb.key, cb.price)
    /\ cb' = Idle
    /\ op' = "tickPrice"
    /\ ret' = None
    /\ obs' = [line |-> 179]
    /\ UNCHANGED <<envVars, wireVars, mt, handed, mono, timeVars, req_id, tickers,
                   stream_key_map, ticks, sessVars, engVars>>

\* unsubscribe, lines 162-163: the test `rid in self._stream_key_map` and
\* cancelMktData
UnsubscribeTest ==
    \E rid \in IssuedRids :
        /\ mt = Idle
        /\ mt' = IF rid \in DOMAIN stream_key_map
                 THEN [at |-> "pop_map", rid |-> rid] ELSE Idle
        /\ op' = "unsubscribe"
        /\ ret' = None
        /\ obs' = [reqId |-> rid]
        /\ UNCHANGED <<envVars, wireVars, cb, handed, mono, timeVars, tickVars, sessVars,
                       engVars>>

\* unsubscribe, line 164: key = self._stream_key_map.pop(rid)
UnsubscribePopMap ==
    /\ mt.at = "pop_map"
    /\ stream_key_map' = Pop(stream_key_map, mt.rid)
    /\ mt' = [at |-> "pop_data", key |-> stream_key_map[mt.rid]]
    /\ op' = "unsubscribe"
    /\ ret' = None
    /\ obs' = [line |-> 164]
    /\ UNCHANGED <<envVars, wireVars, cb, handed, mono, timeVars, req_id, tickers,
                   stream_data, ticks, sessVars, engVars>>

\* unsubscribe, line 165: self._stream_data.pop(key, None)
UnsubscribePopData ==
    /\ mt.at = "pop_data"
    /\ stream_data' = Pop(stream_data, mt.key)
    /\ mt' = Idle
    /\ op' = "unsubscribe"
    /\ ret' = None
    /\ obs' = [line |-> 165]
    /\ UNCHANGED <<envVars, wireVars, cb, handed, mono, timeVars, req_id, tickers,
                   stream_key_map, ticks, sessVars, engVars>>

(* _next_rid on the monitoring thread and nextValidId on the callback
   thread, statement by statement, under self._id_lock *)

\* ids handed out per run
MaxHandouts == 3
\* the ids the broker announces as next valid
OidInputs == {1, 3, 6}

\* a thread is inside `with self._id_lock`
HoldsIdLock(frame) == frame.at \in {"rid_read", "rid_load", "rid_store", "nvi_test", "nvi_set"}

\* threads that enter the block whether the lock is held or not
IdLockFree_NoLock == TRUE

\* self._id_lock can be acquired
IdLockFree == ~HoldsIdLock(cb) /\ ~HoldsIdLock(mt)

\* the statements of these runs leave everything but the counter, the two
\* threads and the ids handed out as it is
IdFrame ==
    UNCHANGED <<envVars, wireVars, mono, timeVars, storeVars, sessVars, engVars>>

\* _next_rid, line 103: with self._id_lock
NextRidAcquire ==
    /\ mt = Idle
    /\ Len(handed) < MaxHandouts
    /\ IdLockFree
    /\ mt' = [at |-> "rid_read"]
    /\ op' = "_next_rid" /\ ret' = None /\ obs' = [line |-> 103]
    /\ UNCHANGED <<cb, handed, req_id>>
    /\ IdFrame

\* _next_rid, line 104: rid = self.req_id
NextRidRead ==
    /\ mt.at = "rid_read"
    /\ mt' = [at |-> "rid_load", rid |-> req_id]
    /\ op' = "_next_rid" /\ ret' = None /\ obs' = [line |-> 104]
    /\ UNCHANGED <<cb, handed, req_id>>
    /\ IdFrame

\* _next_rid, line 105: self.req_id += 1, the load
NextRidLoad ==
    /\ mt.at = "rid_load"
    /\ mt' = [at |-> "rid_store", rid |-> mt.rid, loaded |-> req_id]
    /\ op' = "_next_rid" /\ ret' = None /\ obs' = [line |-> 105]
    /\ UNCHANGED <<cb, handed, req_id>>
    /\ IdFrame

\* _next_rid, lines 105-106: self.req_id += 1, the store; return rid and the
\* release of the lock
NextRidReturn ==
    /\ mt.at = "rid_store"
    /\ req_id' = mt.loaded + 1
    /\ handed' = Append(handed, mt.rid)
    /\ mt' = Idle
    /\ op' = "_next_rid" /\ ret' = Some(mt.rid) /\ obs' = [line |-> 106]
    /\ UNCHANGED cb
    /\ IdFrame

\* nextValidId(oid), line 111: with self._id_lock
NextValidIdAcquire ==
    \E oid \in OidInputs :
        /\ cb = Idle
        /\ IdLockFree
        /\ cb' = [at |-> "nvi_test", oid |-> oid]
        /\ op' = "nextValidId" /\ ret' = None /\ obs' = [oid |-> oid]
        /\ UNCHANGED <<mt, handed, req_id>>
        /\ IdFrame

\* nextValidId, line 112: if oid > self.req_id; the lock is released when
\* the test fails
NextValidIdTest ==
    /\ cb.at = "nvi_test"
    /\ cb' = IF cb.oid > req_id THEN [at |-> "nvi_set", oid |-> cb.oid] ELSE Idle
    /\ op' = "nextValidId" /\ ret' = None /\ obs' = [line |-> 112]
    /\ UNCHANGED <<mt, handed, req_id>>
    /\ IdFrame

\* nextValidId, lines 113-114: self.req_id = oid, the release of the lock
\* and ready.set()
NextValidIdSet ==
    /\ cb.at = "nvi_set"
    /\ req_id' = cb.oid
    /\ cb' = Idle
    /\ op' = "nextValidId" /\ ret' = None /\ obs' = [line |-> 113]
    /\ UNCHANGED <<mt, handed>>
    /\ IdFrame

----------------------------------------------------------------------------
(* Calendar: datetime, pytz.timezone("US/Eastern") *)

DaySeconds == 86400
\* UTC offset of US/Eastern on the dates of the runs (daylight time)
EtUtcOffset == 0 - 14400

\* astimezone(us_eastern): New York wall-clock seconds since 1970-01-01 00:00
EtWall(utc) == utc + EtUtcOffset
\* datetime.datetime.now(): the host's wall clock at monotonic instant m
LocalWall(m) == epoch0 + m + tz_offset
\* .date() as a day number, .time() as the second of the day
DayNumber(wall) == wall \div DaySeconds
SecondOfDay(wall) == wall % DaySeconds
\* .weekday(): Monday is 0, Sunday is 6 (1970-01-01 was a Thursday)
Weekday(wall) == (DayNumber(wall) + 3) % 7
\* datetime.time(h, m) as the second of the day
TimeOfDay(h, m) == h * 3600 + m * 60

\* strftime("%Y%m%d") of a day number, as the number the eight digits spell
YMD(day) ==
    LET z == day + 719468
        era == z \div 146097
        doe == z - era * 146097
        yoe == (doe - doe \div 1460 + doe \div 36524 - doe \div 146096) \div 365
        doy == doe - (365 * yoe + yoe \div 4 - yoe \div 100)
        mp == (5 * doy + 2) \div 153
        d == doy - (153 * mp + 2) \div 5 + 1
        m == IF mp < 10 THEN mp + 3 ELSE mp - 9
        y == yoe + era * 400 + (IF m <= 2 THEN 1 ELSE 0)
    IN y * 10000 + m * 100 + d

\* strptime(s, "%Y%m%d"): the day number of the date eight digits spell
DayOfYMD(ymd) ==
    LET y0 == ymd \div 10000
        m == (ymd \div 100) % 100
        d == ymd % 100
        y == IF m <= 2 THEN y0 - 1 ELSE y0
        era == y \div 400
        yoe == y - era * 400
        doy == (153 * (IF m > 2 THEN m - 3 ELSE m + 9) + 2) \div 5 + d - 1
        doe == yoe * 365 + yoe \div 4 - yoe \div 100 + doy
    IN era * 146097 + doe - 719468

\* tz.localize(strptime(date + hhmm, "%Y%m%d%H%M")) as a UTC epoch second
Localize(ymd, hhmm) ==
    DayOfYMD(ymd) * DaySeconds + TimeOfDay(hhmm \div 100, hhmm % 100)
        - EtUtcOffset

\* et.weekday() > 5: Sunday only
IsWeekend_SundayOnly(wall) == Weekday(wall) > 5

\* et.weekday() >= 5
IsWeekend(wall) == Weekday(wall) >= 5

\* while d.weekday() >= 5: d += timedelta(days=1)
RECURSIVE SkipWeekend(_)
SkipWeekend(day) ==
    IF IsWeekend(day * DaySeconds) THEN SkipWeekend(day + 1) ELSE day

\* _calculate_next_trading_day without the loop over the weekend
NextTradingDay_Tomorrow(et_now) ==
    (DayNumber(et_now) + 1) * DaySeconds + TimeOfDay(9, 30) - EtUtcOffset

\* _calculate_next_trading_day: 09:30 New York time of the next weekday
\* after the day of et_now, as a UTC epoch second
NextTradingDay(et_now) ==
    SkipWeekend(DayNumber(et_now) + 1) * DaySeconds + TimeOfDay(9, 30)
        - EtUtcOffset

----------------------------------------------------------------------------
(* Session State Machine: IBApp.is_market_open *)

\* seconds within which is_market_open returns the state without evaluating
RecheckSeconds == 60
\* STICKY_GRACE = 15 * 60
StickyGrace == 900
\* 1e9: the age taken when nothing was ever cached
NeverAge == 1000000000
\* contract_details_available.wait(10), historical_data_end_available.wait(10)
HoursTimeout == 10
TradesTimeout == 10

\* one range of a tradingHours string: "date:CLOSED", "date:hhmm-hhmm",
\* "date:hhmm-date:hhmm", or text the pattern does not match
Rng(sdate, stime, etime) ==
    [closed |-> FALSE, wellformed |-> TRUE, sdate |-> sdate, stime |-> stime,
     edate |-> None, etime |-> etime]
RngTo(sdate, stime, edate, etime) ==
    [closed |-> FALSE, wellformed |-> TRUE, sdate |-> sdate, stime |-> stime,
     edate |-> Some(edate), etime |-> etime]
Closed(sdate) ==
    [closed |-> TRUE, wellformed |-> FALSE, sdate |-> sdate, stime |-> 0,
     edate |-> None, etime |-> 0]
\* text that does not end with CLOSED and that _RANGE_RE does not match, such
\* as "20250724:930-1600"; the fields are the digits it spells
Malformed(sdate, stime, etime) ==
    [closed |-> FALSE, wellformed |-> FALSE, sdate |-> sdate, stime |-> stime,
     edate |-> None, etime |-> etime]

\* _parse_trading_hours without the test m["sdate"] != today
ParseTradingHours_AnyDate(trading_hours, current_time) ==
    \E i \in 1..Len(trading_hours) :
        LET m == trading_hours[i] IN
        /\ ~m.closed
        /\ m.wellformed
        /\ Localize(m.sdate, m.stime) <= current_time
        /\ current_time < Localize(IF m.edate # None THEN Val(m.edate)
                                   ELSE m.sdate, m.etime)

\* IBApp._parse_trading_hours(trading_hours, current_time): trading_hours is
\* the sequence of its ranges, current_time a UTC epoch second
ParseTradingHours(trading_hours, current_time) ==
    LET today == YMD(DayNumber(EtWall(current_time))) IN
    \E i \in 1..Len(trading_hours) :
        LET m == trading_hours[i] IN
        /\ ~m.closed
        /\ m.wellformed
        /\ m.sdate = today
        /\ Localize(m.sdate, m.stime) <= current_time
        /\ current_time < Localize(IF m.edate # None THEN Val(m.edate)
                                   ELSE m.sdate, m.etime)

\* the part of the state the session operations read and write
AppState ==
    [mono |-> mono, last |-> last_server_time, ts |-> server_time_ts,
     queue |-> current_time_queue, available |-> current_time_available,
     ms |-> market_status, req_id |-> req_id]

\* get_server_time() called in state s with the defaults or with a; the
\* broker answers attempt okAt with its clock, or never when okAt = 0
AskTime(s, a, okAt) ==
    LET t == GetServerTime(
                 [mono |-> s.mono, last |-> s.last, ts |-> s.ts,
                  queue |-> s.queue, available |-> s.available],
                 a, okAt,
                 ServerClock(s.mono + (okAt - 1) * (a.timeout + RetrySleep)))
    IN [s |-> [s EXCEPT !.mono = t.mono, !.last = t.last, !.ts = t.ts,
                        !.queue = t.queue, !.available = t.available],
        ret |-> t.ret]

\* get_server_time(extrapolate=True, soft_cache_age=90.0) and get_server_time()
DefaultTimeArgs ==
    [retry |-> DefaultRetry, timeout |-> DefaultTimeout, extrapolate |-> TRUE,
     soft_cache_age |-> DefaultSoftCacheAge, hard_cache_age |-> None]

\* get_contract_trading_hours: hours is None when the wait times out
GetContractTradingHours(s, hours) ==
    [s |-> [s EXCEPT !.req_id = @ + 1,
                     !.mono = IF hours = None THEN @ + HoursTimeout ELSE @],
     ret |-> hours]

\* check_recent_trades: volume is None when the wait for historicalDataEnd
\* times out, else the volumes of the bars in historical_data_queue
CheckRecentTrades(s, volume) ==
    [s |-> [s EXCEPT !.req_id = @ + 1,
                     !.mono = IF volume = None THEN @ + TradesTimeout ELSE @],
     ret |-> /\ volume # None
             /\ Val(volume) # << >>
             /\ Val(volume)[Len(Val(volume))] > 0]

\* market_status["is_open"] = v, then _calculate_next_trading_day(et) if
\* asked
Commit(s, v, et) ==
    [s EXCEPT !.ms.is_open = v,
              !.ms.next_open = IF et # None THEN Some(NextTradingDay(Val(et)))
                               ELSE @]

\* what an is_market_open call that started in state s did: the state it
\* leaves, the time it resolved at monotonic instant t_time, and the answers
\* it consumed (hours and volume are None when the request was not sent)
Evaluation(s, in, t, sx) ==
    [s |-> sx, evaluated |-> TRUE, resolved |-> t.ret, t_time |-> t.s.mono,
     parsed |-> None,
     hours |-> IF sx.req_id > s.req_id THEN in.hours ELSE None,
     volume |-> IF sx.req_id > s.req_id + 1
                    \/ (sx.req_id > s.req_id /\ in.hours = None)
                THEN in.volume ELSE None]

\* is_market_open, lines 446-452: no trading hours, r is the result of
\* check_recent_trades
RecentTradesFallback(s, in, t, r) ==
    Evaluation(s, in, t,
               Commit(r.s, r.ret,
                      IF r.ret THEN None ELSE Some(EtWall(Val(t.ret)))))

\* lines 454-466 without the re-check of lines 457-461
ParsedHours_NoRecheck(s, in, t, h) ==
    LET et_time == EtWall(Val(t.ret))
        parsed == ParseTradingHours(Val(h.ret), Val(t.ret))
    IN [Evaluation(s, in, t,
                   Commit(h.s, parsed, IF parsed THEN None ELSE Some(et_time)))
        EXCEPT !.parsed = Some(parsed)]

\* is_market_open, lines 454-466: h is the result of
\* get_contract_trading_hours, a trading-hours string
ParsedHours(s, in, t, h) ==
    LET et_time == EtWall(Val(t.ret))
        parsed == ParseTradingHours(Val(h.ret), Val(t.ret))
        debounce == s.ms.is_open /\ ~parsed
                      /\ SecondOfDay(et_time) <= TimeOfDay(16, 5)
        done == IF debounce
                THEN RecentTradesFallback(s, in, t,
                                          CheckRecentTrades(h.s, in.volume))
                ELSE Evaluation(s, in, t,
                                Commit(h.s, parsed,
                                       IF parsed THEN None ELSE Some(et_time)))
    IN [done EXCEPT !.parsed = Some(parsed)]

\* lines 445-466 leaving the state as it is when there are no trading hours
WithHours_KeepsState(s, in, t, h) ==
    IF h.ret = None \/ Val(h.ret) = << >>
    THEN Evaluation(s, in, t, h.s)
    ELSE ParsedHours(s, in, t, h)

\* is_market_open, lines 445-466: the time is resolved to a weekday
WithHours(s, in, t, h) ==
    IF h.ret = None \/ Val(h.ret) = << >>
    THEN RecentTradesFallback(s, in, t,
                              CheckRecentTrades(h.s, in.volume))
    ELSE ParsedHours(s, in, t, h)

\* is_market_open, lines 411-466: t is the result of get_server_time
WithTime(s, in, t) ==
    IF t.ret = None
    THEN LET age == IF t.s.ts # 0 THEN t.s.mono - t.s.ts ELSE NeverAge IN
         IF s.ms.is_open /\ age < StickyGrace
         THEN Evaluation(s, in, t, t.s)
         ELSE Evaluation(s, in, t,
                         Commit(t.s, FALSE,
                                IF t.s.last # None
                                THEN Some(EtWall(Val(t.s.last))) ELSE None))
    ELSE IF IsWeekend(EtWall(Val(t.ret)))
    THEN Evaluation(s, in, t, Commit(t.s, FALSE, Some(EtWall(Val(t.ret)))))
    ELSE WithHours(s, in, t, GetContractTradingHours(t.s, in.hours))

\* is_market_open evaluating on every call
IsMarketOpen_NoLimit(s, in) ==
    WithTime(s, in,
             AskTime([s EXCEPT !.ms.last_check = Some(LocalWall(s.mono))],
                     DefaultTimeArgs, in.okAt))

\* IBApp.is_market_open in state s; in.okAt, in.hours and in.volume are what
\* the broker does with the requests the evaluation sends
IsMarketOpen(s, in) ==
    IF s.ms.last_check # None
         /\ LocalWall(s.mono) - Val(s.ms.last_check) < RecheckSeconds
    THEN [s |-> s, evaluated |-> FALSE, resolved |-> None, t_time |-> s.mono,
          parsed |-> None, hours |-> None, volume |-> None]
    ELSE WithTime(s, in,
                  AskTime([s EXCEPT !.ms.last_check = Some(LocalWall(s.mono))],
                          DefaultTimeArgs, in.okAt))

\* IBApp.is_regular_market_open
IsRegularMarketOpen(s, okAt) ==
    LET t == AskTime(s, DefaultTimeArgs, okAt) IN
    [s |-> t.s,
     ret |-> IF t.ret = None THEN t.s.ms.is_open
             ELSE LET et == EtWall(Val(t.ret)) IN
                  /\ ~IsWeekend(et)
                  /\ TimeOfDay(9, 30) <= SecondOfDay(et)
                  /\ SecondOfDay(et) < TimeOfDay(16, 0)]

\* the state s becomes the state of the application
AppBecomes(s) ==
    /\ mono' = s.mono
    /\ last_server_time' = s.last
    /\ server_time_ts' = s.ts
    /\ current_time_queue' = s.queue
    /\ current_time_available' = s.available
    /\ market_status' = s.ms
    /\ req_id' = s.req_id

(* Inputs of the session runs *)

\* the tradingHours strings the broker answers with: the regular sessions of
\* the week, and a string with a Saturday session
WeekHours ==
    <<Rng(20250724, 930, 1600), RngTo(20250725, 930, 20250725, 1600),
      Closed(20250726), Closed(20250727)>>
SaturdayHours == <<Rng(20250726, 0, 2359)>>
HoursInputs == {None, Some(WeekHours), Some(SaturdayHours)}
\* the volumes of the one-minute bars, None when the query times out
VolumeInputs == {None, Some(<<0>>), Some(<<500>>)}
\* the time request is answered at once or never
OkAtInputs == {0, 1}
SessionInputs ==
    [okAt : OkAtInputs, hours : HoursInputs, volume : VolumeInputs]

\* a call of is_market_open to which the broker answers as in says
IsMarketOpenOn(in) ==
    LET r == IsMarketOpen(AppState, in) IN
    /\ InWindow(r.s.mono)
    /\ AppBecomes(r.s)
    /\ op' = "is_market_open"
    /\ ret' = r.s.ms
    /\ obs' = [evaluated |-> r.evaluated, time_failed |-> (in.okAt = 0),
               resolved |-> r.resolved, t_time |-> r.t_time,
               was_open |-> market_status.is_open, parsed |-> r.parsed,
               hours |-> r.hours, volume |-> r.volume]
    /\ UNCHANGED <<envVars, wireVars, frameVars, storeVars, engVars>>

\* a call of is_market_open
IsMarketOpenCall == \E in \in SessionInputs : IsMarketOpenOn(in)

(* Inputs of the trading-hours runs *)

\* a day that closes early at 13:00
EarlyCloseHours ==
    <<Rng(20250724, 930, 1300), Rng(20250725, 930, 1600)>>
\* a holiday: today is marked CLOSED
HolidayHours == <<Closed(20250724), Rng(20250725, 930, 1600)>>
\* a session that started the evening before and covers today, followed by
\* text the pattern does not match
OvernightHours ==
    <<RngTo(20250723, 1800, 20250724, 1700), Malformed(20250724, 930, 1700)>>
TradingHoursInputs ==
    {None, Some(<< >>), Some(WeekHours), Some(EarlyCloseHours),
     Some(HolidayHours), Some(OvernightHours)}
\* no bar, one bar, and two bars of which the latest has no volume
BarInputs == {None, Some(<< >>), Some(<<0>>), Some(<<500>>), Some(<<500, 0>>)}
TradingHoursRunInputs ==
    [okAt : OkAtInputs, hours : TradingHoursInputs, volume : BarInputs]

\* a call of is_market_open in the trading-hours runs
TradingHoursCall == \E in \in TradingHoursRunInputs : IsMarketOpenOn(in)

\* a call of is_regular_market_open
IsRegularMarketOpenCall ==
    \E okAt \in OkAtInputs :
        LET r == IsRegularMarketOpen(AppState, okAt) IN
        /\ InWindow(r.s.mono)
        /\ AppBecomes(r.s)
        /\ op' = "is_regular_market_open"
        /\ ret' = r.ret
        /\ obs' = [time_failed |-> (okAt = 0)]
        /\ UNCHANGED <<envVars, wireVars, frameVars, storeVars, engVars>>

----------------------------------------------------------------------------
(* Alert Evaluator and Deduplicator: AlertEngine *)

\* CHECK_INTERVAL and the sleeps of the loop
CheckInterval == 60
ClosedSleep == CheckInterval * 5
\* the sleep after an exception of a cycle
FaultSleep == 60
\* _check_market_status evaluates at most once in this many seconds
StatusRecheckSeconds == 300
\* refresh_positions reloads after this many seconds
PositionsMaxAge == 600
\* getPositions(timeout=5.0)
PositionsTimeout == 5
\* _get_underlying_prev_close(symbol, timeout=10.0)
PrevCloseTimeout == 10
\* StrategyConfig; deltas count hundredths, ratios count percent
ProfitTarget == 50
MinDte == 21
SellDeltaThreshold == 30
BuyDeltaFloor == 65
\* abs(gap) >= 0.03, in percent
GapThreshold == 3

\* datetime.date.today() and time.time() at monotonic instant m
LocalDate(m) == DayNumber(LocalWall(m))
UnixTime(m) == epoch0 + m

\* bool(x) of a value read from a snapshot (None when the field is absent)
Truthy(o) == o # None /\ Val(o) # PyNone /\ Val(o) # Num(0)
\* a or b
OrElse(a, b) == IF Truthy(a) THEN a ELSE b
\* isinstance(v, (int, float)) and v > 0
GtZero(o) ==
    o # None /\ ((Val(o).t = "num" /\ Val(o).v > 0) \/ Val(o) = PosInf)
\* d.get(f) of the snapshot d
Field(d, f) == IF f \in DOMAIN d THEN Some(d[f]) ELSE None

\* the elements of a finite set in some order
RECURSIVE SeqOf(_)
SeqOf(S) ==
    IF S = { } THEN << >>
    ELSE LET x == CHOOSE y \in S : TRUE IN <<x>> \o SeqOf(S \ {x})

\* str(strike) of a strike counted in tenths
StrikeStr(strike) == ToString(strike \div 10) \o "." \o ToString(strike % 10)

\* f"{symbol}_{right}_{strike}_{lastTradeDateOrContractMonth}"
PositionKey(p) ==
    p.symbol \o "_" \o p.right \o "_" \o StrikeStr(p.strike) \o "_"
        \o ToString(p.expiry)

\* _load_from_positions: the contracts of the option positions received
LoadFromPositions(positions) ==
    LET opts == {i \in 1..Len(positions) :
                    positions[i].secType = "OPT" /\ positions[i].position # 0}
        last(k) == CHOOSE i \in opts :
                      /\ PositionKey(positions[i]) = k
                      /\ \A j \in opts : PositionKey(positions[j]) = k => j <= i
    IN [k \in {PositionKey(positions[i]) : i \in opts} |->
           LET p == positions[last(k)] IN
           [symbol |-> p.symbol, expiry |-> p.expiry, strike |-> p.strike,
            right |-> p.right,
            action |-> IF p.position < 0 THEN "SELL" ELSE "BUY",
            premium |-> p.avgCost \div p.multiplier]]

\* the state the monitoring thread reads and writes; session is the
\* session state as is_market_open last returned it
EngState ==
    [mono |-> mono, last |-> last_server_time, ts |-> server_time_ts,
     queue |-> current_time_queue, available |-> current_time_available,
     ms |-> market_status, req_id |-> req_id,
     key_map |-> stream_key_map, data |-> stream_data,
     cfgs |-> cfgs, init_price |-> init_price, prev_closes |-> prev_closes,
     sent_alerts |-> sent_alerts, trading_date |-> trading_date,
     market_closed_notified |-> market_closed_notified,
     last_market_status_check |-> last_market_status_check,
     last_positions_update |-> last_positions_update, sink |-> sink,
     session |-> market_status]

\* app.subscribe for each key of a sequence
RECURSIVE SubscribeAll(_, _)
SubscribeAll(e, keys) ==
    IF keys = << >> THEN e
    ELSE SubscribeAll([e EXCEPT !.key_map = Put(@, e.req_id, Head(keys)),
                                !.req_id = @ + 1],
                      Tail(keys))

\* the underlyings of the contract set
Symbols(e) == {e.cfgs[k].symbol : k \in DOMAIN e.cfgs}

\* _subscribe_market_data
SubscribeMarketData(e) ==
    SubscribeAll(SubscribeAll(e, SeqOf(Symbols(e))), SeqOf(DOMAIN e.cfgs))

\* _get_underlying_prev_close for each symbol of a sequence: the close is
\* taken from the snapshot, or the poll times out
RECURSIVE PollPrevCloses(_, _)
PollPrevCloses(e, syms) ==
    IF syms = << >> THEN e
    ELSE LET d == Get(e.data, Head(syms), EmptyDict)
             close_val == OrElse(Field(d, "prev_close"), Field(d, "close"))
         IN PollPrevCloses(
                IF Truthy(close_val)
                THEN [e EXCEPT !.prev_closes = Put(@, Head(syms), Val(close_val))]
                ELSE [e EXCEPT !.mono = @ + PrevCloseTimeout],
                Tail(syms))

\* _update_initial_prices
UpdateInitialPrices(e) ==
    PollPrevCloses(
        [e EXCEPT !.init_price =
            [k \in DOMAIN @ \cup DOMAIN e.cfgs |->
                IF k \in DOMAIN e.cfgs THEN e.cfgs[k].premium ELSE @[k]]],
        SeqOf(Symbols(e) \ DOMAIN e.prev_closes))

\* refresh_positions(force); pin is what getPositions meets: the positions
\* received and whether the wait for their end timed out.  Positions carry
\* a contract id, so enrich_option_contract returns at once.
RefreshDue(e, force) ==
    force \/ UnixTime(e.mono) - e.last_positions_update > PositionsMaxAge

RefreshPositions(e, force, pin) ==
    IF ~RefreshDue(e, force)
    THEN e
    ELSE LET e1 == [e EXCEPT !.mono = IF pin.timedout
                                        THEN @ + PositionsTimeout ELSE @]
             new_cfgs == LoadFromPositions(pin.list)
         IN IF new_cfgs = EmptyDict THEN e1
            ELSE UpdateInitialPrices(SubscribeMarketData(
                     [e1 EXCEPT !.cfgs = new_cfgs,
                                !.last_positions_update = UnixTime(e1.mono)]))

\* _next_regular_open_time as a UTC epoch second
NextRegularOpenTime(e, okAt) ==
    LET t == AskTime(e, DefaultTimeArgs, okAt)
        et_now == EtWall(IF t.ret # None THEN Val(t.ret) ELSE UnixTime(t.s.mono))
        today_open == DayNumber(et_now) * DaySeconds + TimeOfDay(9, 30)
    IN [s |-> t.s,
        ret |-> IF Weekday(et_now) < 5 /\ et_now < today_open
                THEN today_open - EtUtcOffset
                ELSE SkipWeekend(DayNumber(et_now) + 1) * DaySeconds
                         + TimeOfDay(9, 30) - EtUtcOffset]

\* the deliveries counted on the current trading date become deliveries of
\* an earlier date
SinkOnAdvance(sk) ==
    [c \in DOMAIN sk |-> [today |-> 0, before |-> sk[c].before \/ sk[c].today > 0,
                          failed |-> FALSE]]

\* the trading date advancing over a ledger that is kept
StatusDates_KeepLedger(e) ==
    LET current_date == LocalDate(e.mono)
        advance == e.ms.is_open /\ current_date # e.trading_date
    IN [e EXCEPT
          !.trading_date = IF advance THEN current_date ELSE @,
          !.sink = IF advance THEN SinkOnAdvance(@) ELSE @,
          !.market_closed_notified =
              IF advance THEN FALSE
              ELSE IF ~e.ms.is_open /\ ~@ THEN TRUE ELSE @]

\* _check_market_status, lines 306-323: the trading date and the closed
\* notification, once market_status["is_open"] is written
StatusDates(e) ==
    LET current_date == LocalDate(e.mono)
        advance == e.ms.is_open /\ current_date # e.trading_date
    IN [e EXCEPT
          !.sent_alerts = IF advance THEN EmptyDict ELSE @,
          !.trading_date = IF advance THEN current_date ELSE @,
          !.sink = IF advance THEN SinkOnAdvance(@) ELSE @,
          !.market_closed_notified =
              IF advance THEN FALSE
              ELSE IF ~e.ms.is_open /\ ~@ THEN TRUE ELSE @]

\* market_status["next_open"] = self._next_regular_open_time()
SetNextOpen(n) == [n.s EXCEPT !.ms.next_open = Some(n.ret)]

\* _check_market_status, lines 300-304: r is the result of
\* is_regular_market_open
StatusRegular(r, okAt) ==
    IF r.ret THEN [r.s EXCEPT !.ms.is_open = TRUE]
    ELSE SetNextOpen(NextRegularOpenTime([r.s EXCEPT !.ms.is_open = FALSE],
                                         okAt))

\* market_status = self.app.is_market_open(): m is the result of the call
Returned(m) == [m.s EXCEPT !.session = m.s.ms]

\* return market_status["is_open"]
StatusResult(e) == [e |-> e, ret |-> e.ms.is_open, checked |-> TRUE]

\* _check_market_status; net is what the broker does with the requests
StatusFresh(e) ==
    /\ e.last_market_status_check # None
    /\ LocalWall(e.mono) - Val(e.last_market_status_check)
          < StatusRecheckSeconds

CheckMarketStatus(e, net) ==
    IF StatusFresh(e)
    THEN [e |-> e, ret |-> e.ms.is_open, checked |-> FALSE]
    ELSE StatusResult(StatusDates(StatusRegular(
             IsRegularMarketOpen(
                 Returned(IsMarketOpen(
                     [e EXCEPT !.last_market_status_check =
                                   Some(LocalWall(e.mono))],
                     [okAt |-> net.t1, hours |-> net.hours,
                      volume |-> net.volume])),
                 net.t2),
             net.t3)))

\* strptime(expiry, "%Y%m%d") succeeds
ExpiryValid(expiry) ==
    /\ expiry >= 10000101 /\ expiry <= 99991231
    /\ YMD(DayOfYMD(expiry)) = expiry

\* _dte(expiry) on the local date today
Dte(expiry, today) == DayOfYMD(expiry) - today

\* _pick_price: the first positive value among these fields
PickOrder == <<"last", "bid", "ask", "p68", "p66", "p67", "p37">>
PickPrice(d) ==
    LET hits == {i \in 1..Len(PickOrder) : GtZero(Field(d, PickOrder[i]))} IN
    IF hits = { } THEN None
    ELSE Field(d, PickOrder[CHOOSE i \in hits : \A j \in hits : i <= j])

Abs(x) == IF x < 0 THEN 0 - x ELSE x

\* abs(gap) > 0.03
GapTriggered_Above(px, prev) ==
    IF px.t = "num" /\ prev.t = "num"
    THEN Abs(px.v - prev.v) * 100 > GapThreshold * Abs(prev.v)
    ELSE px.t = "inf" /\ prev.t = "num"

\* abs((stock_px - prev_close) / prev_close) >= 0.03
GapTriggered(px, prev) ==
    IF px.t = "num" /\ prev.t = "num"
    THEN Abs(px.v - prev.v) * 100 >= GapThreshold * Abs(prev.v)
    ELSE px.t = "inf" /\ prev.t = "num"

\* the gap alerts of a cycle
GapAlerts(e) ==
    {<<"gap", sym>> : sym \in
        {x \in Symbols(e) :
            LET d == Get(e.data, x, EmptyDict)
                stock_px == OrElse(OrElse(Field(d, "last"), Field(d, "bid")),
                                   Field(d, "ask"))
                prev_close == Field(e.prev_closes, x)
            IN /\ Truthy(stock_px) /\ Truthy(prev_close)
               /\ GapTriggered(Val(stock_px), Val(prev_close))}}

\* the options a cycle evaluates: those with a price and a delta
Evaluable(e) ==
    {k \in DOMAIN e.cfgs :
        LET d == Get(e.data, k, EmptyDict) IN
        /\ PickPrice(d) # None
        /\ Field(d, "delta") # None /\ Val(Field(d, "delta")) # PyNone}

\* the delta rules applied whatever the side of the position
DeltaHit_AnySide(is_sell, delta_abs) ==
    \/ delta_abs >= SellDeltaThreshold
    \/ delta_abs <= BuyDeltaFloor /\ delta_abs > 0

\* lines 501 and 515: the delta rule of the side of the position
DeltaHit(is_sell, delta_abs) ==
    \/ is_sell /\ delta_abs >= SellDeltaThreshold
    \/ ~is_sell /\ delta_abs <= BuyDeltaFloor /\ delta_abs > 0

\* the profit rule applied to long positions too, on (price - base) / base
ProfitHit_AnySide(is_sell, base, price) ==
    /\ price.t = "num" /\ base > 0
    /\ IF is_sell THEN (base - price.v) * 100 >= ProfitTarget * base
       ELSE (price.v - base) * 100 >= ProfitTarget * base

\* lines 529-536: pct = (base - price) / base >= profit_target on a short
\* position; base is abs(premium), and 1e-9 in place of 0 makes pct negative
ProfitHit(is_sell, base, price) ==
    /\ is_sell /\ price.t = "num" /\ base > 0
    /\ (base - price.v) * 100 >= ProfitTarget * base

\* the alerts of one option
OptionAlerts(e, key, today) ==
    LET c == e.cfgs[key]
        d == Get(e.data, key, EmptyDict)
        price == Val(PickPrice(d))
        delta_abs == Abs(Val(Field(d, "delta")).v)
        is_sell == c.action = "SELL"
        base == Abs(c.premium)
        profit == ProfitHit(is_sell, base, price)
        delta_hit == DeltaHit(is_sell, delta_abs)
    IN (IF delta_hit THEN {<<"delta", key>>} ELSE { }) \cup
       (IF profit THEN {<<"profit", key>>} ELSE { }) \cup
       (IF Dte(c.expiry, today) <= MinDte THEN {<<"dte", key>>} ELSE { })

\* an evaluation that gives up the options when one lacks data
Evaluate_Break(e) ==
    LET today == LocalDate(e.mono) IN
    IF \E k \in Evaluable(e) : ~ExpiryValid(e.cfgs[k].expiry)
    THEN [raised |-> TRUE, alerts |-> { }]
    ELSE [raised |-> FALSE,
          alerts |-> GapAlerts(e) \cup
                     (IF Evaluable(e) = DOMAIN e.cfgs
                      THEN UNION {OptionAlerts(e, k, today) : k \in Evaluable(e)}
                      ELSE { })]

\* the evaluation of a cycle: the alerts collected, or raised when _dte
\* raises on an expiry that is not a date
Evaluate(e) ==
    LET today == LocalDate(e.mono) IN
    IF \E k \in Evaluable(e) : ~ExpiryValid(e.cfgs[k].expiry)
    THEN [raised |-> TRUE, alerts |-> { }]
    ELSE [raised |-> FALSE,
          alerts |-> GapAlerts(e) \cup
                     UNION {OptionAlerts(e, k, today) : k \in Evaluable(e)}]

\* unique_id = f"{alert_type}_{key}_{self.trading_date:%Y%m%d}"
AlertId(c, date) == c[1] \o "_" \o c[2] \o "_" \o ToString(YMD(date))

\* a ledger keyed by the condition alone and kept across trading dates
IsNewAlert_AcrossDates(e, c) ==
    /\ AlertId(c, e.trading_date) \notin DOMAIN e.sent_alerts
    /\ ~(c \in DOMAIN e.sink /\ e.sink[c].before)

\* every alert is new
IsNewAlert_Always(e, c) == TRUE

\* aid not in self.sent_alerts
IsNewAlert(e, c) == AlertId(c, e.trading_date) \notin DOMAIN e.sent_alerts

\* what the LINE endpoint does with a push: it answers 200, it answers
\* another status, or requests.post raises
PushOutcomes == {"ok", "http_error", "exception"}

\* a line_push that lets the exception of requests.post through
LinePush_Propagates(outcome) == [raised |-> outcome = "exception"]

\* line_push(msg): a status other than 200 and an exception are logged
LinePush(outcome) == [raised |-> FALSE]

\* the dispatch of the alerts collected: each one not in the ledger is
\* recorded, then pushed; push is what the endpoint does with the pushes
Dispatch(e, alerts, push) ==
    LET fresh == {c \in alerts : IsNewAlert(e, c)} IN
    [e |-> [e EXCEPT
              !.sent_alerts =
                  [a \in DOMAIN @ \cup {AlertId(c, e.trading_date) : c \in fresh} |->
                      IF a \in DOMAIN @ THEN @[a] ELSE e.trading_date],
              !.sink =
                  [c \in DOMAIN @ \cup fresh |->
                      IF c \in fresh
                      THEN [today |-> (IF c \in DOMAIN @ THEN @[c].today ELSE 0) + 1,
                            before |-> c \in DOMAIN @ /\ @[c].before,
                            failed |-> push # "ok"]
                      ELSE @[c]]],
     delivered |-> fresh,
     push |-> IF fresh = { } THEN None ELSE Some(push),
     raised |-> fresh # { } /\ LinePush(push).raised]

\* what a cycle did
CycleObs(b, raised, issued, delivered, push) ==
    [checked |-> b.checked, open |-> b.ret, raised |-> raised,
     issued |-> issued, delivered |-> delivered, session |-> b.e.session,
     push |-> push]

\* loop, lines 571-585: d is the result of the dispatch
Dispatched(b, alerts, d) ==
    [e |-> [d.e EXCEPT !.mono = @ + CheckInterval],
     o |-> CycleObs(b, d.raised, alerts, d.delivered, d.push)]

\* a cycle whose exception empties the ledger
CycleEvaluated_LosesLedger(b, e, ev, push) ==
    IF ev.raised
    THEN [e |-> [e EXCEPT !.mono = @ + FaultSleep, !.sent_alerts = EmptyDict],
          o |-> CycleObs(b, TRUE, { }, { }, None)]
    ELSE Dispatched(b, ev.alerts, Dispatch(e, ev.alerts, push))

\* loop, lines 459-588: the market is open; ev is the result of the
\* evaluation in state e
CycleEvaluated(b, e, ev, push) ==
    IF ev.raised
    THEN [e |-> [e EXCEPT !.mono = @ + FaultSleep],
          o |-> CycleObs(b, TRUE, { }, { }, None)]
    ELSE Dispatched(b, ev.alerts, Dispatch(e, ev.alerts, push))

\* loop, lines 455-588: b is the result of _check_market_status
AfterStatus(b, push) ==
    IF ~b.ret
    THEN [e |-> [b.e EXCEPT !.mono = @ + ClosedSleep],
          o |-> CycleObs(b, FALSE, { }, { }, None)]
    ELSE CycleEvaluated(b, [b.e EXCEPT !.market_closed_notified = FALSE],
                    Evaluate([b.e EXCEPT !.market_closed_notified = FALSE]),
                    push)

\* one iteration of the loop of AlertEngine.loop
Cycle(e, pin, net, push) ==
    AfterStatus(CheckMarketStatus(RefreshPositions(e, FALSE, pin), net), push)

\* the state e becomes the state of the program
EngBecomes(e) ==
    /\ AppBecomes(e)
    /\ stream_key_map' = e.key_map
    /\ stream_data' = e.data
    /\ cfgs' = e.cfgs
    /\ init_price' = e.init_price
    /\ prev_closes' = e.prev_closes
    /\ sent_alerts' = e.sent_alerts
    /\ trading_date' = e.trading_date
    /\ market_closed_notified' = e.market_closed_notified
    /\ last_market_status_check' = e.last_market_status_check
    /\ last_positions_update' = e.last_positions_update
    /\ sink' = e.sink

(* Bounds and inputs of the engine runs *)

\* the runs follow the engine for Horizon seconds after the process starts
Horizon == 360
\* tick callbacks per engine run
MaxFeeds == 3
\* the process starts on Thursday 2025-07-24 at 11:59:00 New York time
ThuNoon == 1753372640
EngineEpochs == {ThuNoon}
\* the host runs on New York time or on Taipei time
HostOffsets == {EtUtcOffset, HostUtcOffset}

\* the positions the account holds: 100 SPY shares and a short SPY put
StockPosition ==
    [secType |-> "STK", symbol |-> "SPY", right |-> "", strike |-> 0,
     expiry |-> 0, position |-> 100, avgCost |-> 60000, multiplier |-> 100]
ShortPut ==
    [secType |-> "OPT", symbol |-> "SPY", right |-> "P", strike |-> 6000,
     expiry |-> 20250815, position |-> 0 - 1, avgCost |-> 50000,
     multiplier |-> 100]
Portfolio == <<StockPosition, ShortPut>>
\* a put the account reports with a contract month for its expiry
MonthPut == [ShortPut EXCEPT !.expiry = 202508]
MonthPortfolio == <<StockPosition, MonthPut>>
\* what getPositions meets: the positions of the account, or no position
\* callback within the timeout
PositionInputs ==
    {[list |-> << >>, timedout |-> TRUE],
     [list |-> account, timedout |-> FALSE]}

\* the broker answers every request of a status check, or none
NetUp ==
    [t1 |-> 1, hours |-> Some(WeekHours), volume |-> Some(<<500>>),
     t2 |-> 1, t3 |-> 1]
NetDown == [t1 |-> 0, hours |-> None, volume |-> None, t2 |-> 0, t3 |-> 0]
NetInputs == {NetUp, NetDown}

\* the price ticks of the feed, by key: prior close and last of the
\* underlying, last of the option (in cents)
FeedPrices ==
    [k \in StreamKeys \cup {PositionKey(MonthPut)} |->
        IF k = "SPY" THEN {<<75, Num(60000)>>, <<68, Num(63000)>>}
        ELSE {<<68, Num(200)>>}]
\* the greek tick of the feed
FeedGreeks == AllValid(35)

InHorizon == mono - BootUptime <= Horizon

\* AlertEngine.__init__ (the start-up warning it pushes when no option
\* position is found is not a condition and is not counted in sink)
EngineInit ==
    \E pin \in PositionInputs :
        /\ pc = "new"
        /\ EngBecomes(RefreshPositions(
               [EngState EXCEPT !.trading_date = LocalDate(mono)], TRUE, pin))
        /\ pc' = "constructed"
        /\ op' = "engine_init"
        /\ ret' = None
        /\ obs' = [positions |-> pin]
        /\ UNCHANGED <<envVars, wireVars, frameVars, tickers, ticks>>

\* _wait_for_market_open: the sleep before the next look, n being the
\* result of _next_regular_open_time
WaitSeconds(n) ==
    LET wait_seconds == n.ret - UnixTime(n.s.mono) IN
    IF wait_seconds <= 60 THEN 30
    ELSE IF wait_seconds < 300 THEN wait_seconds ELSE 300

\* _wait_for_market_open: one round in which the session is closed
WaitRound(n) == [n.s EXCEPT !.mono = @ + WaitSeconds(n)]

\* first_snap while the regular session is closed: one wait of
\* _wait_for_market_open
FirstSnapWait ==
    \E okAt \in OkAtInputs, okAt2 \in OkAtInputs :
        /\ pc = "constructed"
        /\ InHorizon
        /\ ~IsRegularMarketOpen(EngState, okAt).ret
        /\ EngBecomes(WaitRound(NextRegularOpenTime(
               IsRegularMarketOpen(EngState, okAt).s, okAt2)))
        /\ pc' = pc
        /\ op' = "first_snap_wait"
        /\ ret' = None
        /\ obs' = [time_failed |-> (okAt = 0)]
        /\ UNCHANGED <<envVars, wireVars, frameVars, tickers, ticks>>

\* first_snap, lines 241-253: premiums, then prior closes polled afresh
SnapPrices(e) ==
    PollPrevCloses(
        [e EXCEPT !.init_price =
                      [k \in DOMAIN @ \cup DOMAIN e.cfgs |->
                          IF k \in DOMAIN e.cfgs THEN e.cfgs[k].premium
                          ELSE @[k]],
                  !.prev_closes = EmptyDict],
        SeqOf(Symbols(e)))

\* first_snap once the regular session is open
FirstSnap ==
    \E okAt \in OkAtInputs :
        /\ pc = "constructed"
        /\ IsRegularMarketOpen(EngState, okAt).ret
        /\ EngBecomes(SnapPrices(IsRegularMarketOpen(EngState, okAt).s))
        /\ pc' = "snapped"
        /\ op' = "first_snap"
        /\ ret' = None
        /\ obs' = [time_failed |-> (okAt = 0)]
        /\ UNCHANGED <<envVars, wireVars, frameVars, tickers, ticks>>

\* loop: the forced refresh before the first iteration
LoopStart ==
    \E pin \in PositionInputs :
        /\ pc = "snapped"
        /\ EngBecomes(RefreshPositions(EngState, TRUE, pin))
        /\ pc' = "loop"
        /\ op' = "loop_start"
        /\ ret' = None
        /\ obs' = [positions |-> pin]
        /\ UNCHANGED <<envVars, wireVars, frameVars, tickers, ticks>>

\* the inputs a cycle can meet, each drawn where the cycle consumes it:
\* positions when the refresh is due, the broker's answers when the status
\* check is due, the endpoint's answer when an alert is pushed
CyclePositions ==
    IF RefreshDue(EngState, FALSE) THEN PositionInputs
    ELSE {[list |-> << >>, timedout |-> FALSE]}
CycleNets(pin) ==
    IF StatusFresh(RefreshPositions(EngState, FALSE, pin)) THEN {NetUp}
    ELSE NetInputs
CyclePushes(pin, net) ==
    IF Cycle(EngState, pin, net, "ok").o.delivered = { } THEN {"ok"}
    ELSE PushOutcomes

\* loop: one iteration
CycleStep ==
    \E pin \in CyclePositions : \E net \in CycleNets(pin) :
    \E push \in CyclePushes(pin, net) :
        LET r == Cycle(EngState, pin, net, push) IN
        /\ pc = "loop"
        /\ InHorizon
        /\ EngBecomes(r.e)
        /\ pc' = pc
        /\ op' = "cycle"
        /\ ret' = None
        /\ obs' = [refresh |-> IF RefreshDue(EngState, FALSE)
                                THEN Some(pin) ELSE None] @@ r.o
        /\ UNCHANGED <<envVars, wireVars, frameVars, tickers, ticks>>

\* the callback thread delivers the quote of an option subscription: its
\* last price, then its greeks
FeedQuote ==
    \E rid \in DOMAIN stream_key_map :
        \E t \in FeedPrices[stream_key_map[rid]] :
            /\ stream_key_map[rid] \in DOMAIN cfgs
            /\ ticks < MaxFeeds
            /\ StoresBecome(TickOptionComputation(
                   TickPrice(TickStores, rid, t[1], t[2]), rid, 13, FeedGreeks))
            /\ op' = "tickOptionComputation"
            /\ ret' = None
            /\ obs' = [reqId |-> rid, field |-> 13, greeks |-> FeedGreeks,
                       price |-> t[2]]
            /\ UNCHANGED <<envVars, wireVars, frameVars, mono, timeVars, sessVars, engVars>>

\* the option positions of the account are closed before the monitoring
\* loop starts: the account reports them with size 0 from then on
PositionsClosed ==
    /\ pc \in {"constructed", "snapped"}
    /\ \E i \in DOMAIN account :
          account[i].secType = "OPT" /\ account[i].position # 0
    /\ account' = [i \in DOMAIN account |->
                      IF account[i].secType = "OPT"
                      THEN [account[i] EXCEPT !.position = 0]
                      ELSE account[i]]
    /\ op' = "positions_closed"
    /\ ret' = None
    /\ obs' = [args |-> None]
    /\ UNCHANGED <<epoch0, tz_offset, wireVars, frameVars, mono, timeVars,
                   tickVars, sessVars, engVars>>

\* the callback thread delivers a price tick of a subscription
FeedPrice ==
    \E rid \in DOMAIN stream_key_map :
        \E t \in FeedPrices[stream_key_map[rid]] :
            /\ ticks < MaxFeeds
            /\ StoresBecome(TickPrice(TickStores, rid, t[1], t[2]))
            /\ op' = "tickPrice"
            /\ ret' = None
            /\ obs' = [reqId |-> rid, field |-> t[1], price |-> t[2]]
            /\ UNCHANGED <<envVars, wireVars, frameVars, mono, timeVars, sessVars, engVars>>

\* the callback thread delivers the greeks of an option subscription
FeedGreek ==
    \E rid \in DOMAIN stream_key_map :
        /\ stream_key_map[rid] \in DOMAIN cfgs
        /\ ticks < MaxFeeds
        /\ StoresBecome(TickOptionComputation(TickStores, rid, 13, FeedGreeks))
        /\ op' = "tickOptionComputation"
        /\ ret' = None
        /\ obs' = [reqId |-> rid, field |-> 13, greeks |-> FeedGreeks]
        /\ UNCHANGED <<envVars, wireVars, frameVars, mono, timeVars, sessVars, engVars>>

(* Inputs of the gap runs *)

\* the price ticks of the underlying, in cents: two prior closes, a delayed
\* last, a delayed bid and a delayed ask
GapTicks ==
    {<<75, Num(9500)>>, <<75, Num(10000)>>, <<68, Num(10000)>>,
     <<66, Num(9700)>>, <<67, Num(10299)>>}

\* the callback thread delivers a price tick of a subscription of an
\* underlying
FeedStock ==
    \E rid \in DOMAIN stream_key_map :
        \E t \in GapTicks :
            /\ stream_key_map[rid] \notin DOMAIN cfgs
            /\ ticks < MaxFeeds
            /\ StoresBecome(TickPrice(TickStores, rid, t[1], t[2]))
            /\ op' = "tickPrice"
            /\ ret' = None
            /\ obs' = [reqId |-> rid, field |-> t[1], price |-> t[2]]
            /\ UNCHANGED <<envVars, wireVars, frameVars, mono, timeVars, sessVars, engVars>>

(* Inputs of the option runs *)

\* a short put and a long call expiring within MinDte days, each entered at
\* a premium of 2.00
NearPut == [ShortPut EXCEPT !.expiry = 20250801, !.avgCost = 20000]
LongCall ==
    [secType |-> "OPT", symbol |-> "SPY", right |-> "C", strike |-> 6000,
     expiry |-> 20250801, position |-> 1, avgCost |-> 20000,
     multiplier |-> 100]
OptionPortfolio == <<NearPut, LongCall>>

\* the quotes of the options: pairs of a last price in cents and a model
\* delta in hundredths
OptionQuotes ==
    [k \in {PositionKey(NearPut), PositionKey(LongCall)} |->
        IF k = PositionKey(NearPut)
        THEN {<<90, 0 - 30>>, <<100, 0 - 29>>, <<110, 30>>}
        ELSE {<<400, 65>>, <<90, 66>>, <<90, 0>>}]

\* the subscription made last for a key
LatestRid(key) ==
    CHOOSE rid \in DOMAIN stream_key_map :
        /\ stream_key_map[rid] = key
        /\ \A r \in DOMAIN stream_key_map :
              stream_key_map[r] = key => r <= rid

\* the callback thread delivers the quote q of the option key: its last
\* price, then its greeks
QuoteArrives(key, q) ==
    LET rid == LatestRid(key) IN
    /\ ticks < MaxFeeds
    /\ StoresBecome(TickOptionComputation(
           TickPrice(TickStores, rid, 68, Num(q[1])), rid, 13, AllValid(q[2])))
    /\ op' = "tickOptionComputation"
    /\ ret' = None
    /\ obs' = [reqId |-> rid, field |-> 13, greeks |-> AllValid(q[2]),
               price |-> Num(q[1])]
    /\ UNCHANGED <<envVars, wireVars, frameVars, mono, timeVars, sessVars, engVars>>

OptionQuote ==
    \E key \in DOMAIN cfgs : \E q \in OptionQuotes[key] : QuoteArrives(key, q)

\* the quote of an option in the runs with incomplete snapshots
FullQuote == <<90, 35>>
OptionFullQuote == \E key \in DOMAIN cfgs : QuoteArrives(key, FullQuote)

\* the callback thread delivers the last price of an option and no greeks
OptionPrice ==
    \E key \in DOMAIN cfgs :
        LET rid == LatestRid(key) IN
        /\ ticks < MaxFeeds
        /\ StoresBecome(TickPrice(TickStores, rid, 68, Num(90)))
        /\ op' = "tickPrice"
        /\ ret' = None
        /\ obs' = [reqId |-> rid, field |-> 68, price |-> Num(90)]
        /\ UNCHANGED <<envVars, wireVars, frameVars, mono, timeVars, sessVars, engVars>>

\* the callback thread delivers the greeks of an option and no price
OptionGreek ==
    \E key \in DOMAIN cfgs :
        LET rid == LatestRid(key) IN
        /\ ticks < MaxFeeds
        /\ StoresBecome(TickOptionComputation(TickStores, rid, 13, AllValid(35)))
        /\ op' = "tickOptionComputation"
        /\ ret' = None
        /\ obs' = [reqId |-> rid, field |-> 13, greeks |-> AllValid(35)]
        /\ UNCHANGED <<envVars, wireVars, frameVars, mono, timeVars, sessVars, engVars>>

(* Blocking operations of IBApp, wait by wait: the monitoring thread sends a
   request and waits; the callback thread may answer or not *)

\* at most MaxSent requests are sent before the last blocking call starts
MaxSent == 3
\* TIMEOUT = 5.0
SnapshotTimeout == 5

\* self.reqCurrentTime(), self.reqMktData(rid, ...), ...
Send(req, id) == sent' = Append(sent, [req |-> req, id |-> id])

\* the monitoring thread is free to start a blocking call
CanCall == mt = Idle /\ Len(sent) < MaxSent

\* the blocking call returns value; o is what it met
Returns(name, value, o) ==
    /\ mt' = Idle
    /\ op' = name
    /\ ret' = value
    /\ obs' = o

\* get_server_time(): the first attempt, up to its wait
GetServerTimeEnter ==
    /\ CanCall
    /\ current_time_available' = FALSE
    /\ current_time_queue' = << >>
    /\ Send("reqCurrentTime", 0)
    /\ mt' = [at |-> "time_wait", attempt |-> 1, t0 |-> mono, n0 |-> Len(sent)]
    /\ UNCHANGED <<envVars, events, cb, handed, mono, last_server_time,
                   server_time_ts, tickVars, sessVars, engVars, obsVars>>

\* get_server_time(): the wait of an attempt ends; the call returns the
\* answer, or sleeps and asks again, or returns from its failure tail
GetServerTimeResume ==
    /\ mt.at = "time_wait"
    /\ IF current_time_available
       THEN LET ts == Head(current_time_queue) IN
            /\ current_time_queue' = Tail(current_time_queue)
            /\ last_server_time' = Some(ts)
            /\ server_time_ts' = mono
            /\ Returns("get_server_time", Some(ts),
                       [answered |-> TRUE, waited |-> mono - mt.t0])
            /\ UNCHANGED <<mono, current_time_available, sent>>
       ELSE IF mt.attempt < DefaultRetry
       THEN /\ mono' = mono + DefaultTimeout + RetrySleep
            /\ current_time_available' = FALSE
            /\ current_time_queue' = << >>
            /\ Send("reqCurrentTime", 0)
            /\ mt' = [mt EXCEPT !.attempt = @ + 1]
            /\ UNCHANGED <<last_server_time, server_time_ts, obsVars>>
       ELSE LET now == mono + DefaultTimeout + RetrySleep IN
            /\ mono' = now
            /\ Returns("get_server_time",
                       FailurePath(last_server_time, server_time_ts, now, TRUE,
                                   DefaultSoftCacheAge, None).ret,
                       [answered |-> FALSE, waited |-> now - mt.t0])
            /\ UNCHANGED <<timeVars, sent>>
    /\ UNCHANGED <<envVars, events, cb, handed, tickVars, sessVars, engVars>>

\* IBApp.currentTime, called by the callback thread while a time request
\* is outstanding
CurrentTime ==
    /\ mt.at = "time_wait"
    /\ ticks < MaxTicks
    /\ current_time_queue' = Append(current_time_queue, ServerClock(mono))
    /\ current_time_available' = TRUE
    /\ ticks' = ticks + 1
    /\ op' = "currentTime"
    /\ ret' = None
    /\ obs' = [args |-> ServerClock(mono)]
    /\ UNCHANGED <<envVars, wireVars, frameVars, mono, last_server_time,
                   server_time_ts, req_id, tickers, stream_key_map,
                   stream_data, sessVars, engVars>>

\* getPositions(timeout=5.0), up to its wait
GetPositionsEnter ==
    /\ CanCall
    /\ events' = [events EXCEPT !.positions = << >>,
                                !.positions_completed = FALSE]
    /\ Send("reqPositions", 0)
    /\ mt' = [at |-> "positions_wait", t0 |-> mono]
    /\ UNCHANGED <<envVars, cb, handed, mono, timeVars, tickVars, sessVars,
                   engVars, obsVars>>

\* getPositions: the wait ends, on positionEnd or on the timeout
GetPositionsResume ==
    /\ mt.at = "positions_wait"
    /\ mono' = IF events.positions_completed THEN mono
               ELSE mono + PositionsTimeout
    /\ Returns("getPositions", events.positions,
               [answered |-> events.positions_completed,
                waited |-> mono' - mt.t0])
    /\ UNCHANGED <<envVars, wireVars, cb, handed, timeVars, tickVars,
                   sessVars, engVars>>

\* a callback of the callback thread that changes events only
EventsBecome(name, e) ==
    /\ ticks < MaxTicks
    /\ events' = e
    /\ ticks' = ticks + 1
    /\ op' = name
    /\ ret' = None
    /\ obs' = [args |-> None]
    /\ UNCHANGED <<envVars, sent, frameVars, mono, timeVars, req_id, tickers,
                   stream_key_map, stream_data, sessVars, engVars>>

\* IBApp.position and IBApp.positionEnd
Position ==
    /\ mt.at = "positions_wait"
    /\ Len(events.positions) < Len(Portfolio)
    /\ EventsBecome("position",
           [events EXCEPT !.positions =
                Append(@, Portfolio[Len(events.positions) + 1])])
PositionEnd ==
    /\ mt.at = "positions_wait"
    /\ EventsBecome("positionEnd", [events EXCEPT !.positions_completed = TRUE])

\* get_contract_trading_hours, up to its wait
TradingHoursEnter ==
    /\ CanCall
    /\ events' = [events EXCEPT !.contract_details_available = FALSE,
                                !.contract_details_queue = << >>]
    /\ req_id' = req_id + 1
    /\ Send("reqContractDetails", req_id)
    /\ mt' = [at |-> "hours_wait", t0 |-> mono]
    /\ UNCHANGED <<envVars, cb, handed, mono, timeVars, storeVars, sessVars,
                   engVars, obsVars>>

\* get_contract_trading_hours: the wait ends
TradingHoursResume ==
    /\ mt.at = "hours_wait"
    /\ mono' = IF events.contract_details_available THEN mono
               ELSE mono + HoursTimeout
    /\ Returns("get_contract_trading_hours",
               IF events.contract_details_available
                    /\ events.contract_details_queue # << >>
               THEN Some(Head(events.contract_details_queue)) ELSE None,
               [answered |-> events.contract_details_available,
                waited |-> mono' - mt.t0])
    /\ UNCHANGED <<envVars, wireVars, cb, handed, timeVars, tickVars,
                   sessVars, engVars>>

\* IBApp.contractDetails and IBApp.contractDetailsEnd
ContractDetails ==
    /\ mt.at = "hours_wait"
    /\ EventsBecome("contractDetails",
           [events EXCEPT !.contract_details_queue = Append(@, WeekHours)])
ContractDetailsEnd ==
    /\ mt.at = "hours_wait"
    /\ EventsBecome("contractDetailsEnd",
           [events EXCEPT !.contract_details_available = TRUE])

\* check_recent_trades, up to its wait
RecentTradesEnter ==
    /\ CanCall
    /\ events' = [events EXCEPT !.historical_data_end_available = FALSE,
                                !.historical_data_queue = << >>]
    /\ req_id' = req_id + 1
    /\ Send("reqHistoricalData", req_id)
    /\ mt' = [at |-> "trades_wait", t0 |-> mono]
    /\ UNCHANGED <<envVars, cb, handed, mono, timeVars, storeVars, sessVars,
                   engVars, obsVars>>

\* check_recent_trades: the wait ends
RecentTradesResume ==
    /\ mt.at = "trades_wait"
    /\ mono' = IF events.historical_data_end_available THEN mono
               ELSE mono + TradesTimeout
    /\ Returns("check_recent_trades",
               /\ events.historical_data_end_available
               /\ events.historical_data_queue # << >>
               /\ events.historical_data_queue[
                      Len(events.historical_data_queue)] > 0,
               [answered |-> events.historical_data_end_available,
                waited |-> mono' - mt.t0])
    /\ UNCHANGED <<envVars, wireVars, cb, handed, timeVars, tickVars,
                   sessVars, engVars>>

\* IBApp.historicalData (a bar with volume 500) and IBApp.historicalDataEnd
HistoricalData ==
    /\ mt.at = "trades_wait"
    /\ EventsBecome("historicalData",
           [events EXCEPT !.historical_data_queue = Append(@, 500)])
HistoricalDataEnd ==
    /\ mt.at = "trades_wait"
    /\ EventsBecome("historicalDataEnd",
           [events EXCEPT !.historical_data_end_available = TRUE])

\* snapshot(con, is_opt), up to its polling loop
SnapshotEnter ==
    \E is_opt \in BOOLEAN :
        /\ CanCall
        /\ req_id' = req_id + 1
        /\ Send("reqMktData", req_id)
        /\ mt' = [at |-> "snapshot_poll", rid |-> req_id, is_opt |-> is_opt,
                  t0 |-> mono]
        /\ UNCHANGED <<envVars, events, cb, handed, mono, timeVars, storeVars,
                       sessVars, engVars, obsVars>>

\* price_ready and greeks_ready
SnapshotReady(d, is_opt) ==
    /\ \E k \in {"last", "bid", "ask"} : k \in DOMAIN d
    /\ ~is_opt \/ ("delta" \in DOMAIN d /\ d["delta"] # PyNone)

\* the dictionary snapshot returns; None stands for Python's None
SnapshotResult(data) ==
    [price |-> OrElse(OrElse(Field(data, "last"), Field(data, "bid")),
                      Field(data, "ask")),
     delta |-> Field(data, "delta"),
     iv |-> Field(data, "iv"),
     close |-> OrElse(Field(data, "prev_close"), Field(data, "close"))]

\* a snapshot that polls one round longer
SnapshotExpired_Late(t0) == ~(mono - t0 < SnapshotTimeout + 1)

\* not (time.monotonic() - t0 < TIMEOUT)
SnapshotExpired(t0) == ~(mono - t0 < SnapshotTimeout)

\* snapshot: one round of the polling loop (the sleeps of one second taken
\* together), or the end of the loop: cancel, pop, return
SnapshotPoll ==
    /\ mt.at = "snapshot_poll"
    /\ LET d == Get(tickers, mt.rid, EmptyDict) IN
       IF ~SnapshotExpired(mt.t0) /\ ~SnapshotReady(d, mt.is_opt)
       THEN /\ mono' = mono + 1
            /\ UNCHANGED <<mt, tickers, sent, obsVars>>
       ELSE /\ Send("cancelMktData", mt.rid)
            /\ tickers' = Pop(tickers, mt.rid)
            /\ Returns("snapshot", SnapshotResult(d),
                       [rid |-> mt.rid, is_opt |-> mt.is_opt, data |-> d,
                        waited |-> mono - mt.t0])
            /\ UNCHANGED mono
    /\ UNCHANGED <<envVars, events, cb, handed, timeVars, req_id,
                   stream_key_map, stream_data, ticks, sessVars, engVars>>

\* the ticks of a snapshot request: a last price, a prior close
SnapshotTicks == {<<68, Num(500)>>, <<75, Num(480)>>}

\* IBApp.tickPrice and IBApp.tickOptionComputation on the request of the
\* snapshot in progress
SnapshotTickPrice ==
    \E t \in SnapshotTicks :
        /\ mt.at = "snapshot_poll"
        /\ ticks < MaxTicks
        /\ StoresBecome(TickPrice(TickStores, mt.rid, t[1], t[2]))
        /\ op' = "tickPrice"
        /\ ret' = None
        /\ obs' = [reqId |-> mt.rid, field |-> t[1], price |-> t[2]]
        /\ UNCHANGED <<envVars, wireVars, frameVars, mono, timeVars, sessVars,
                       engVars>>
SnapshotTickGreeks ==
    /\ mt.at = "snapshot_poll"
    /\ ticks < MaxTicks
    /\ StoresBecome(TickOptionComputation(TickStores, mt.rid, 13, FeedGreeks))
    /\ op' = "tickOptionComputation"
    /\ ret' = None
    /\ obs' = [reqId |-> mt.rid, field |-> 13, greeks |-> FeedGreeks]
    /\ UNCHANGED <<envVars, wireVars, frameVars, mono, timeVars, sessVars,
                   engVars>>

\* the steps with which the monitoring thread goes on in a blocking call
MonitoringThreadStep ==
    \/ GetServerTimeResume
    \/ GetPositionsResume
    \/ TradingHoursResume
    \/ RecentTradesResume
    \/ SnapshotPoll

(* get_server_time on the monitoring thread and currentTime on the callback
   thread, statement by statement: the broker may answer a time request at
   any later moment, and the answer carries no request id *)

\* the monitoring thread inside get_server_time, about to run statement at
TimeFrame(at, attempt, asked) ==
    [at |-> at, attempt |-> attempt, asked |-> asked]

\* self.current_time_available.clear(), in the first attempt of a call or in
\* a later one
TimeClearEvent ==
    /\ \/ CanCall /\ mt' = TimeFrame("time_clear_queue", 1, mono)
       \/ /\ mt.at = "time_clear_event"
          /\ mt' = [mt EXCEPT !.at = "time_clear_queue"]
    /\ current_time_available' = FALSE
    /\ UNCHANGED <<envVars, wireVars, cb, handed, mono, last_server_time,
                   server_time_ts, current_time_queue, tickVars, sessVars,
                   engVars, obsVars>>

\* self.current_time_queue.clear()
TimeClearQueue ==
    /\ mt.at = "time_clear_queue"
    /\ current_time_queue' = << >>
    /\ mt' = [mt EXCEPT !.at = "time_request"]
    /\ UNCHANGED <<envVars, wireVars, cb, handed, mono, last_server_time,
                   server_time_ts, current_time_available, tickVars, sessVars,
                   engVars, obsVars>>

\* self.reqCurrentTime(): the request leaves at monotonic instant mono
TimeRequest ==
    /\ mt.at = "time_request"
    /\ sent' = Append(sent, [req |-> "reqCurrentTime", id |-> 0, at |-> mono])
    /\ mt' = [mt EXCEPT !.at = "time_wait", !.asked = mono]
    /\ UNCHANGED <<envVars, events, cb, handed, mono, timeVars, tickVars,
                   sessVars, engVars, obsVars>>

\* self.current_time_available.wait(timeout): the Event is set and wait
\* returns True, or the timeout passes; after the sleep the loop goes on or
\* ends in the failure tail
TimeWait ==
    /\ mt.at = "time_wait"
    /\ IF current_time_available
       THEN /\ mt' = [mt EXCEPT !.at = "time_pop"]
            /\ UNCHANGED <<mono, obsVars>>
       ELSE LET now == mono + DefaultTimeout + RetrySleep IN
            /\ mono' = now
            /\ IF mt.attempt < DefaultRetry
               THEN /\ mt' = [mt EXCEPT !.at = "time_clear_event",
                                        !.attempt = @ + 1]
                    /\ UNCHANGED obsVars
               ELSE Returns("get_server_time",
                            FailurePath(last_server_time, server_time_ts, now,
                                        TRUE, DefaultSoftCacheAge, None).ret,
                            [raised |-> FALSE, fresh |-> FALSE,
                             asked |-> mt.asked])
    /\ UNCHANGED <<envVars, wireVars, cb, handed, timeVars, tickVars,
                   sessVars, engVars>>

\* ts = self.current_time_queue.popleft(), which raises IndexError on an
\* empty deque; then the cache is written and the time returned
TimePop ==
    /\ mt.at = "time_pop"
    /\ IF current_time_queue = << >>
       THEN /\ Returns("get_server_time", None,
                       [raised |-> TRUE, fresh |-> FALSE, asked |-> mt.asked])
            /\ UNCHANGED <<last_server_time, server_time_ts,
                           current_time_queue>>
       ELSE /\ current_time_queue' = Tail(current_time_queue)
            /\ last_server_time' = Some(Head(current_time_queue))
            /\ server_time_ts' = mono
            /\ Returns("get_server_time", Some(Head(current_time_queue)),
                       [raised |-> FALSE, fresh |-> TRUE, asked |-> mt.asked])
    /\ UNCHANGED <<envVars, wireVars, cb, handed, mono,
                   current_time_available, tickVars, sessVars, engVars>>

\* the requests the broker has not answered yet: it answers them in order,
\* each once
Unanswered == ticks < Len(sent)

\* IBApp.currentTime, first statement: the answer to the oldest unanswered
\* request is appended; it is the server's clock when the request left
CurrentTimeAppend ==
    /\ cb = Idle
    /\ Unanswered
    /\ current_time_queue' =
           Append(current_time_queue, ServerClock(sent[ticks + 1].at))
    /\ ticks' = ticks + 1
    /\ cb' = [at |-> "time_set"]
    /\ UNCHANGED <<envVars, wireVars, mt, handed, mono, last_server_time,
                   server_time_ts, current_time_available, req_id, tickers,
                   stream_key_map, stream_data, sessVars, engVars, obsVars>>

\* IBApp.currentTime, second statement: self.current_time_available.set()
CurrentTimeSet ==
    /\ cb.at = "time_set"
    /\ current_time_available' = TRUE
    /\ cb' = Idle
    /\ UNCHANGED <<envVars, wireVars, mt, handed, mono, last_server_time,
                   server_time_ts, current_time_queue, tickVars, sessVars,
                   engVars, obsVars>>

(* refresh_positions(force=True) at the construction of the engine and at
   the start of the loop, with the wait of getPositions: the position
   callbacks of the callback thread arrive during the wait or after it *)

\* __init__ and loop: refresh_positions(force=True) up to the wait of
\* getPositions(timeout=5.0)
RefreshEnter ==
    /\ mt = Idle
    /\ pc \in {"new", "snapped"}
    /\ events' = [events EXCEPT !.positions = << >>,
                                !.positions_completed = FALSE]
    /\ Send("reqPositions", 0)
    /\ mt' = [at |-> "refresh_wait", t0 |-> mono]
    /\ UNCHANGED <<envVars, cb, handed, mono, timeVars, tickVars, sessVars,
                   engVars, obsVars>>

\* the wait of getPositions ends, on positionEnd or on the timeout, and
\* getPositions returns self._positions; the rest of refresh_positions, from
\* _load_from_positions on.  The trading date is the one __init__ set before.
RefreshResume ==
    LET pin == [list |-> events.positions,
                timedout |-> ~events.positions_completed]
    IN
    /\ mt.at = "refresh_wait"
    /\ EngBecomes(RefreshPositions(
           [EngState EXCEPT !.trading_date =
                IF pc = "new" THEN LocalDate(mono) ELSE @], TRUE, pin))
    /\ pc' = IF pc = "new" THEN "constructed" ELSE "loop"
    /\ mt' = Idle
    /\ op' = IF pc = "new" THEN "engine_init" ELSE "loop_start"
    /\ ret' = None
    /\ obs' = [positions |-> pin]
    /\ UNCHANGED <<envVars, wireVars, cb, handed, tickers, ticks>>

\* the broker answers each reqPositions with the positions of the account,
\* one callback each, and positionEnd; left is the place in the batch of the
\* next callback
BatchPlace == ticks % (Len(account) + 1)
BatchPending == ticks < Len(sent) * (Len(account) + 1)

\* IBApp.position: the record is appended to self._positions, the list
\* getPositions returns
PositionRecord ==
    /\ BatchPending
    /\ BatchPlace < Len(account)
    /\ events' = [events EXCEPT !.positions =
                      Append(@, account[BatchPlace + 1])]
    /\ ticks' = ticks + 1
    /\ op' = "position"
    /\ ret' = None
    /\ obs' = [late |-> mt = Idle]
    /\ UNCHANGED <<envVars, sent, frameVars, mono, timeVars, req_id, tickers,
                   stream_key_map, stream_data, sessVars, engVars>>

\* IBApp.positionEnd
PositionBatchEnd ==
    /\ BatchPending
    /\ BatchPlace = Len(account)
    /\ events' = [events EXCEPT !.positions_completed = TRUE]
    /\ ticks' = ticks + 1
    /\ op' = "positionEnd"
    /\ ret' = None
    /\ obs' = [late |-> mt = Idle]
    /\ UNCHANGED <<envVars, sent, frameVars, mono, timeVars, req_id, tickers,
                   stream_key_map, stream_data, sessVars, engVars>>

----------------------------------------------------------------------------

\* IBApp.__init__: the Events are clear, the lists empty; nothing was sent
InitWire ==
    /\ events = [positions |-> << >>, positions_completed |-> FALSE,
                 contract_details_queue |-> << >>,
                 contract_details_available |-> FALSE,
                 historical_data_queue |-> << >>,
                 historical_data_end_available |-> FALSE]
    /\ sent = << >>

\* neither thread is inside a handler or a registry operation
InitFrames == cb = Idle /\ mt = Idle /\ handed = << >> /\ InitWire

InitTime ==
    /\ last_server_time = None
    /\ server_time_ts = 0
    /\ current_time_queue = << >>
    /\ current_time_available = FALSE

InitTick ==
    /\ req_id = 1
    /\ tickers = EmptyDict
    /\ stream_key_map = EmptyDict
    /\ stream_data = EmptyDict
    /\ ticks = 0

\* IBApp.__init__: market_status
InitSession ==
    market_status = [is_open |-> FALSE, next_open |-> None, last_check |-> None]

\* the alert engine is not constructed yet
InitEngine ==
    /\ pc = "new"
    /\ cfgs = EmptyDict
    /\ init_price = EmptyDict
    /\ prev_closes = EmptyDict
    /\ sent_alerts = EmptyDict
    /\ trading_date = 0
    /\ market_closed_notified = FALSE
    /\ last_market_status_check = None
    /\ last_positions_update = 0
    /\ sink = EmptyDict

\* the application is constructed and the handshake is done
InitApp ==
    /\ mono = BootUptime
    /\ tz_offset = HostUtcOffset
    /\ account = << >>
    /\ InitFrames
    /\ InitTime
    /\ InitTick
    /\ InitSession
    /\ InitEngine
    /\ op = "init"
    /\ ret = None
    /\ obs = [args |-> None]

Init == epoch0 \in StartEpochs /\ InitApp

NextTime == GetServerTimeCall \/ Elapse

SpecTime == Init /\ [][NextTime]_vars

NextTick == SubscribeCall \/ UnsubscribeCall \/ TickPriceCall

SpecTick == Init /\ [][NextTick]_vars

\* subscribe, unsubscribe and the four tick handlers, one call at a time
NextRegistry ==
    \/ SubscribeCall
    \/ UnsubscribeCall
    \/ RegPrice
    \/ RegSize
    \/ RegGeneric
    \/ RegGreek

SpecRegistry == Init /\ [][NextRegistry]_vars

\* tick callbacks interleaved with subscribe and unsubscribe
NextRace ==
    \/ SubscribeStep
    \/ TickPriceTest
    \/ TickPriceLookup
    \/ TickPriceStore
    \/ UnsubscribeTest
    \/ UnsubscribePopMap
    \/ UnsubscribePopData

SpecRace == Init /\ [][NextRace]_vars

\* the operations that issue requests take their ids while the broker
\* announces next valid ids
NextIds ==
    \/ NextRidAcquire
    \/ NextRidRead
    \/ NextRidLoad
    \/ NextRidReturn
    \/ NextValidIdAcquire
    \/ NextValidIdTest
    \/ NextValidIdSet

SpecIds == Init /\ [][NextIds]_vars

\* greek ticks on the subscriptions the alert engine holds: it subscribes
\* again on every position refresh and never unsubscribes
NextGreek == SubscribeCall \/ TickOptionComputationCall

SpecGreek == Init /\ [][NextGreek]_vars

\* greek updates of every quote side on the subscriptions
NextSides == SubscribeCall \/ SidedGreek

SpecSides == Init /\ [][NextSides]_vars

\* the session operations called at the instants of the windows
NextSession == IsMarketOpenCall \/ IsRegularMarketOpenCall \/ Elapse

\* main.py: the engine is constructed, takes its first snapshot and loops,
\* while the callback thread delivers ticks
InitEngineRun ==
    /\ epoch0 \in EngineEpochs
    /\ mono = BootUptime
    /\ tz_offset \in HostOffsets
    /\ account = Portfolio
    /\ InitFrames
    /\ InitTime
    /\ InitTick
    /\ InitSession
    /\ InitEngine
    /\ op = "init"
    /\ ret = None
    /\ obs = [args |-> None]

Next ==
    \/ EngineInit
    \/ FirstSnapWait
    \/ FirstSnap
    \/ LoopStart
    \/ CycleStep
    \/ PositionsClosed
    \/ FeedPrice
    \/ FeedGreek

Spec == InitEngineRun /\ [][Next]_vars

\* main.py with an account whose option carries a contract month: _dte
\* raises in every cycle that evaluates the option
InitFaultRun ==
    /\ epoch0 \in EngineEpochs
    /\ mono = BootUptime
    /\ tz_offset = EtUtcOffset
    /\ account = MonthPortfolio
    /\ InitFrames
    /\ InitTime
    /\ InitTick
    /\ InitSession
    /\ InitEngine
    /\ op = "init"
    /\ ret = None
    /\ obs = [args |-> None]

NextFault ==
    \/ EngineInit
    \/ FirstSnapWait
    \/ FirstSnap
    \/ LoopStart
    \/ CycleStep
    \/ FeedPrice
    \/ FeedQuote

SpecFault == InitFaultRun /\ [][NextFault]_vars

\* main.py on a host on Taipei time, the feed delivering the quotes of the
\* underlying
InitGapRun ==
    /\ epoch0 \in EngineEpochs
    /\ mono = BootUptime
    /\ tz_offset = HostUtcOffset
    /\ account = Portfolio
    /\ InitFrames
    /\ InitTime
    /\ InitTick
    /\ InitSession
    /\ InitEngine
    /\ op = "init"
    /\ ret = None
    /\ obs = [args |-> None]

NextGap ==
    \/ EngineInit
    \/ FirstSnapWait
    \/ FirstSnap
    \/ LoopStart
    \/ CycleStep
    \/ FeedStock

SpecGap == InitGapRun /\ [][NextGap]_vars

\* main.py on a host on New York time with a short put or with a long call,
\* the feed delivering the quotes of the option
InitOptionRun ==
    /\ epoch0 \in EngineEpochs
    /\ mono = BootUptime
    /\ tz_offset = EtUtcOffset
    /\ account \in {<<NearPut>>, <<LongCall>>}
    /\ InitFrames
    /\ InitTime
    /\ InitTick
    /\ InitSession
    /\ InitEngine
    /\ op = "init"
    /\ ret = None
    /\ obs = [args |-> None]

NextOptions ==
    \/ EngineInit
    \/ FirstSnapWait
    \/ FirstSnap
    \/ LoopStart
    \/ CycleStep
    \/ OptionQuote

SpecOptions == InitOptionRun /\ [][NextOptions]_vars

\* main.py with both options, the feed delivering whole quotes, prices
\* without greeks and greeks without prices
InitPartialRun ==
    /\ epoch0 \in EngineEpochs
    /\ mono = BootUptime
    /\ tz_offset = EtUtcOffset
    /\ account = OptionPortfolio
    /\ InitFrames
    /\ InitTime
    /\ InitTick
    /\ InitSession
    /\ InitEngine
    /\ op = "init"
    /\ ret = None
    /\ obs = [args |-> None]

NextPartial ==
    \/ EngineInit
    \/ FirstSnapWait
    \/ FirstSnap
    \/ LoopStart
    \/ CycleStep
    \/ OptionFullQuote
    \/ OptionPrice
    \/ OptionGreek

SpecPartial == InitPartialRun /\ [][NextPartial]_vars

\* the blocking calls of the monitoring thread and the callbacks that may
\* answer them
NextBlocking ==
    \/ GetServerTimeEnter
    \/ GetServerTimeResume
    \/ CurrentTime
    \/ GetPositionsEnter
    \/ GetPositionsResume
    \/ Position
    \/ PositionEnd
    \/ TradingHoursEnter
    \/ TradingHoursResume
    \/ ContractDetails
    \/ ContractDetailsEnd
    \/ RecentTradesEnter
    \/ RecentTradesResume
    \/ HistoricalData
    \/ HistoricalDataEnd
    \/ SnapshotEnter
    \/ SnapshotPoll
    \/ SnapshotTickPrice
    \/ SnapshotTickGreeks

\* Event.wait(timeout) and time.sleep return and the monitoring thread is
\* scheduled again: a blocking call in progress takes its next step
SpecBlocking ==
    Init /\ [][NextBlocking]_vars /\ WF_vars(MonitoringThreadStep)

\* main.py up to the first iteration of the loop, the position callbacks
\* arriving when they will
NextRefresh ==
    \/ RefreshEnter
    \/ RefreshResume
    \/ PositionRecord
    \/ PositionBatchEnd
    \/ FirstSnapWait
    \/ FirstSnap

SpecRefresh == InitPartialRun /\ [][NextRefresh]_vars

\* get_server_time and currentTime, interleaved statement by statement
NextLate ==
    \/ TimeClearEvent
    \/ TimeClearQueue
    \/ TimeRequest
    \/ TimeWait
    \/ TimePop
    \/ CurrentTimeAppend
    \/ CurrentTimeSet

SpecLate == Init /\ [][NextLate]_vars

InitSessionRun == epoch0 \in SessionEpochs /\ InitApp

SpecSession == InitSessionRun /\ [][NextSession]_vars

NextHours == TradingHoursCall \/ Elapse

\* the process starts at 10:00 or at 10:04 New York time, so that the later
\* window covers 16:00:00 to 16:02:30 or 16:04:00 to 16:06:30
HoursEpochs == {ThuMorning, ThuMorning + 240}
InitHoursRun == epoch0 \in HoursEpochs /\ InitApp

SpecHours == InitHoursRun /\ [][NextHours]_vars

----------------------------------------------------------------------------
(* Properties of the Alert Deduplicator *)

\* the condition c was delivered on a trading date before the current one
DeliveredBefore(sk, c) == c \in DOMAIN sk /\ sk[c].before
\* the number of deliveries of c on the current trading date
DeliveredToday(sk, c) == IF c \in DOMAIN sk THEN sk[c].today ELSE 0

\* C1: while the trading date of the engine does not change, each condition
\* (alert kind and instrument key) is delivered to the notification sink at
\* most once, however many cycles detect it again.
C1_AtMostOncePerTradingDate ==
    \A c \in DOMAIN sink : sink[c].today <= 1

C1_Witness ==
    /\ op = "cycle"
    /\ \E c \in obs.issued :
          /\ c \notin obs.delivered
          /\ DeliveredToday(sink, c) = 1

\* C2: a condition delivered on an earlier trading date is delivered again,
\* exactly once more, in the first open cycle that issues it after the
\* trading date advanced: after every cycle issuing such a condition it has
\* one delivery on the current trading date, and the cycle delivers it
\* exactly when it is the first to issue it on that date.
C2_DeliveredAgainAfterAdvance ==
    [][op' = "cycle" =>
         \A c \in obs'.issued :
            DeliveredBefore(sink', c) =>
               /\ DeliveredToday(sink', c) = 1
               /\ c \in obs'.delivered
                    <=> (trading_date' # trading_date
                            \/ DeliveredToday(sink, c) = 0)]_vars

C2_Witness ==
    /\ op = "cycle"
    /\ \E c \in obs.delivered :
          /\ DeliveredBefore(sink, c)
          /\ DeliveredToday(sink, c) = 1

\* the exchange is in its regular session at monotonic instant m: a weekday
\* between 09:30 and 16:00 New York time
InExchangeSession(m) ==
    LET et == EtWall(ServerClock(m)) IN
    /\ Weekday(et) \notin {5, 6}
    /\ TimeOfDay(9, 30) <= SecondOfDay(et)
    /\ SecondOfDay(et) < TimeOfDay(16, 0)

\* the instants m and n lie in the same open session of the exchange
SameExchangeSession(m, n) ==
    /\ InExchangeSession(m)
    /\ InExchangeSession(n)
    /\ DayNumber(EtWall(ServerClock(m))) = DayNumber(EtWall(ServerClock(n)))

\* C37: during one continuous open session of the exchange, the Sent-Alert
\* Ledger is never cleared and the trading date used in alert ids does not
\* change, so a condition is delivered at most once per exchange session
\* even when the process's local calendar date rolls over while the market
\* is open.
C37_OncePerExchangeSession ==
    [][(pc = "loop" /\ op' = "cycle" /\ SameExchangeSession(BootUptime, mono')) =>
         /\ trading_date' = trading_date
         /\ DOMAIN sent_alerts \subseteq DOMAIN sent_alerts'
         /\ \A c \in obs'.delivered : c \notin DOMAIN sink]_vars

\* C17: once the monitoring loop runs it keeps running; a cycle in which an
\* exception is raised ends after the cool-down, with the ledger as it was
\* (unless the cycle advanced the trading date before the exception) and
\* with the contract set as the cycle's refresh left it.
C17_CycleSurvivesException ==
    [][/\ pc = "loop" => pc' = "loop"
       /\ (op' = "cycle" /\ obs'.raised) =>
             /\ mono' - mono >= FaultSleep
             /\ trading_date' = trading_date => sent_alerts' = sent_alerts
             /\ obs'.refresh = None => cfgs' = cfgs
             /\ cfgs' # EmptyDict]_vars

C17_Witness ==
    /\ op = "cycle" /\ obs.raised
    /\ pc = "loop"
    /\ sent_alerts # EmptyDict
    /\ \E k \in DOMAIN cfgs : ~ExpiryValid(cfgs[k].expiry)

\* C15: after a position refresh that runs and receives the account's
\* positions, the contract set is the set derived from the option positions
\* of nonzero size the account holds.
C15_ContractSetFollowsPositions ==
    [][/\ (op' \in {"engine_init", "loop_start"} /\ ~obs'.positions.timedout) =>
             cfgs' = LoadFromPositions(account')
       /\ (op' = "cycle" /\ obs'.refresh # None
              /\ ~Val(obs'.refresh).timedout) =>
             cfgs' = LoadFromPositions(account')]_vars

\* the push of c on the current trading date failed
PushFailedToday(sk, c) == c \in DOMAIN sk /\ sk[c].failed

\* C14: when the pushes of a cycle fail (a status other than 200, or an
\* exception of the request), the ids of the alerts pushed are in the ledger
\* all the same and the cycle ends as any other, without an exception; an
\* alert whose push failed is not pushed again while the trading date stays.
C14_FailedPushIsRecorded ==
    [][op' = "cycle" =>
         /\ (obs'.push # None /\ Val(obs'.push) # "ok") =>
               /\ obs'.delivered # { }
               /\ \A c \in obs'.delivered :
                     /\ AlertId(c, trading_date') \in DOMAIN sent_alerts'
                     /\ PushFailedToday(sink', c)
               /\ ~obs'.raised
               /\ pc' = "loop"
         /\ trading_date' = trading_date =>
               \A c \in obs'.issued :
                   PushFailedToday(sink, c) => c \notin obs'.delivered]_vars

C14_Witness ==
    /\ op = "cycle"
    /\ \E c \in obs.issued \ obs.delivered :
          /\ PushFailedToday(sink, c)
          /\ AlertId(c, trading_date) \in DOMAIN sent_alerts

\* the ledger holds entries of the engine's trading date only
LedgerOfToday(ledger, date) == \A a \in DOMAIN ledger : ledger[a] = date

\* C13: every entry of the ledger was recorded on the engine's current
\* trading date; the step that advances the trading date empties the ledger
\* (what it holds afterwards was recorded by that step's own dispatch, under
\* the new date) and leaves the market-closed-notified flag reset.
C13_LedgerOfCurrentTradingDate ==
    [][/\ LedgerOfToday(sent_alerts', trading_date')
       /\ (pc = "loop" /\ trading_date' # trading_date) =>
             /\ op' = "cycle" /\ obs'.checked /\ obs'.open
             /\ DOMAIN sent_alerts' =
                    {AlertId(c, trading_date') : c \in obs'.delivered}
             /\ ~market_closed_notified']_vars

C13_Witness ==
    /\ op = "cycle" /\ obs.checked
    /\ \E c \in DOMAIN sink : DeliveredBefore(sink, c)
    /\ sent_alerts # EmptyDict
    /\ LedgerOfToday(sent_alerts, trading_date)

\* a cycle that found the market open and evaluated the instruments
CycleEvaluates == op' = "cycle" /\ obs'.open /\ ~obs'.raised

\* the current price of a streaming snapshot: last, else bid, else ask,
\* a value of 0 counting as missing
CurrentPrice(d) ==
    IF "last" \in DOMAIN d /\ d["last"] # Num(0) THEN Some(d["last"])
    ELSE IF "bid" \in DOMAIN d /\ d["bid"] # Num(0) THEN Some(d["bid"])
    ELSE IF "ask" \in DOMAIN d /\ d["ask"] # Num(0) THEN Some(d["ask"])
    ELSE None

\* |price - close| / close >= 3%, for a positive close
GapOfThreePercent(price, close) ==
    \/ (price - close) * 100 >= 3 * close
    \/ (close - price) * 100 >= 3 * close

\* C24: in a cycle, for each monitored underlying that has a current price
\* (last, else bid, else ask) and a reference close, a gap alert is issued
\* iff |price - close| / close >= 3%; none is issued when either value is
\* missing.
C24_GapAlert ==
    [][CycleEvaluates =>
         \A sym \in {cfgs'[k].symbol : k \in DOMAIN cfgs'} :
            LET d == IF sym \in DOMAIN stream_data' THEN stream_data'[sym]
                     ELSE EmptyDict
                price == CurrentPrice(d)
            IN <<"gap", sym>> \in obs'.issued <=>
                  /\ price # None
                  /\ sym \in DOMAIN prev_closes'
                  /\ GapOfThreePercent(Val(price).v, prev_closes'[sym].v)]_vars

\* the bid of 97.00, taken for want of a last, against the close of 100.00:
\* a gap of exactly 3%
C24_Witness ==
    /\ op = "cycle" /\ obs.open /\ ~obs.raised
    /\ "SPY" \in DOMAIN stream_data
    /\ CurrentPrice(stream_data["SPY"]) = Some(Num(9700))
    /\ "last" \notin DOMAIN stream_data["SPY"]
    /\ "SPY" \in DOMAIN prev_closes
    /\ prev_closes["SPY"] = Num(10000)
    /\ <<"gap", "SPY">> \in obs.issued

\* C39: alerts collected for instruments evaluated earlier in a cycle are
\* delivered even if the evaluation of a later instrument raises: one
\* instrument whose evaluation fails in every cycle cannot suppress the
\* alerts of the other instruments indefinitely.  The underlyings are
\* evaluated before the options: after an open cycle in which an option
\* raised, the gap alert of every underlying whose price is 3% from its
\* reference close is in the ledger of the trading date.
C39_EarlierAlertsSurviveException ==
    [][(op' = "cycle" /\ obs'.open /\ obs'.raised) =>
         \A sym \in {cfgs'[k].symbol : k \in DOMAIN cfgs'} :
            LET d == IF sym \in DOMAIN stream_data' THEN stream_data'[sym]
                     ELSE EmptyDict
                price == CurrentPrice(d)
            IN (/\ price # None
                /\ sym \in DOMAIN prev_closes'
                /\ GapOfThreePercent(Val(price).v, prev_closes'[sym].v))
               => AlertId(<<"gap", sym>>, trading_date')
                     \in DOMAIN sent_alerts']_vars

\* C30: in every cycle the gap alert compares the current price against the
\* prior trading day's close as of that cycle: once the trading date has
\* advanced past the date the engine started on, the reference close of an
\* underlying is the prior close the feed delivered last, not the value
\* captured on an earlier trading date.
C30_ReferenceCloseFollowsDate ==
    [][(CycleEvaluates /\ trading_date' > LocalDate(BootUptime)) =>
         \A sym \in DOMAIN prev_closes' :
            (sym \in DOMAIN stream_data'
                /\ "prev_close" \in DOMAIN stream_data'[sym])
              => prev_closes'[sym] = stream_data'[sym]["prev_close"]]_vars

\* the streaming snapshot of key k after the step
SnapshotAfter(k) ==
    IF k \in DOMAIN stream_data' THEN stream_data'[k] ELSE EmptyDict

\* the snapshot d carries a usable price and a delta
PriceAndDelta(d) == PickPrice(d) # None /\ "delta" \in DOMAIN d

\* |delta| of the snapshot d, in hundredths
AbsDelta(d) == IF d["delta"].v < 0 THEN 0 - d["delta"].v ELSE d["delta"].v

\* C25 as stated: for an option with price and delta present, a delta alert
\* is issued iff the position is short and |delta| >= 0.30, or the position
\* is long and |delta| <= 0.65.
C25_DeltaAlert ==
    [][CycleEvaluates =>
         \A k \in DOMAIN cfgs' :
            PriceAndDelta(SnapshotAfter(k)) =>
               (<<"delta", k>> \in obs'.issued <=>
                   \/ cfgs'[k].action = "SELL"
                        /\ AbsDelta(SnapshotAfter(k)) >= 30
                   \/ cfgs'[k].action = "BUY"
                        /\ AbsDelta(SnapshotAfter(k)) <= 65)]_vars

\* C25 amended: for an option with price and delta present, a delta alert
\* is issued iff the position is short and |delta| >= 0.30, or the position
\* is long and 0 < |delta| <= 0.65; never both, and never by the other
\* side's rule.
C25_DeltaAlertNonzero ==
    [][CycleEvaluates =>
         \A k \in DOMAIN cfgs' :
            PriceAndDelta(SnapshotAfter(k)) =>
               (<<"delta", k>> \in obs'.issued <=>
                   \/ cfgs'[k].action = "SELL"
                        /\ AbsDelta(SnapshotAfter(k)) >= 30
                   \/ cfgs'[k].action = "BUY"
                        /\ AbsDelta(SnapshotAfter(k)) > 0
                        /\ AbsDelta(SnapshotAfter(k)) <= 65)]_vars

\* the long call at a delta of exactly 0.65 raises the delta alert
C25_Witness ==
    /\ op = "cycle" /\ obs.open /\ ~obs.raised
    /\ PositionKey(LongCall) \in DOMAIN cfgs
    /\ PositionKey(LongCall) \in DOMAIN stream_data
    /\ "delta" \in DOMAIN stream_data[PositionKey(LongCall)]
    /\ stream_data[PositionKey(LongCall)]["delta"] = Num(65)
    /\ <<"delta", PositionKey(LongCall)>> \in obs.issued

\* C26: for a short position with price and delta present the profit is
\* (premium - price) / premium and a profit alert is issued iff it is >= 50%;
\* a long position never produces a profit alert.
C26_ProfitAlert ==
    [][CycleEvaluates =>
         \A k \in DOMAIN cfgs' :
            PriceAndDelta(SnapshotAfter(k)) =>
               (<<"profit", k>> \in obs'.issued <=>
                   /\ cfgs'[k].action = "SELL"
                   /\ (cfgs'[k].premium - Val(PickPrice(SnapshotAfter(k))).v) * 100
                         >= 50 * cfgs'[k].premium)]_vars

\* the short put entered at 2.00 and quoted at 1.00: a profit of exactly 50%
C26_Witness ==
    /\ op = "cycle" /\ obs.open /\ ~obs.raised
    /\ PositionKey(NearPut) \in DOMAIN cfgs
    /\ cfgs[PositionKey(NearPut)].premium = 200
    /\ PositionKey(NearPut) \in DOMAIN stream_data
    /\ "last" \in DOMAIN stream_data[PositionKey(NearPut)]
    /\ stream_data[PositionKey(NearPut)]["last"] = Num(100)
    /\ <<"profit", PositionKey(NearPut)>> \in obs.issued

\* the kinds of alert of an option
OptionAlertKinds == {"delta", "profit", "dte"}

\* C27: an option whose snapshot lacks a usable price or a delta produces no
\* alert of any kind (delta, profit, DTE) in that cycle; every other option
\* is still evaluated in the same cycle (its DTE alert, due for every option
\* of these runs, is issued), and so is the option itself in the first later
\* cycle that finds its price and delta.
C27_IncompleteSkipped ==
    [][CycleEvaluates =>
         \A k \in DOMAIN cfgs' :
            IF PriceAndDelta(SnapshotAfter(k))
            THEN <<"dte", k>> \in obs'.issued
            ELSE \A t \in OptionAlertKinds : <<t, k>> \notin obs'.issued]_vars

\* the put has a price and no delta and raises nothing, the call is
\* evaluated in the same cycle
C27_Witness ==
    /\ op = "cycle" /\ obs.open /\ ~obs.raised
    /\ DOMAIN cfgs = {PositionKey(NearPut), PositionKey(LongCall)}
    /\ PositionKey(NearPut) \in DOMAIN stream_data
    /\ DOMAIN stream_data[PositionKey(NearPut)] = {"last"}
    /\ <<"dte", PositionKey(LongCall)>> \in obs.issued
    /\ \A t \in OptionAlertKinds : <<t, PositionKey(NearPut)>> \notin obs.issued

----------------------------------------------------------------------------
(* Properties of the Subscriptions *)

\* the instrument keys the engine monitors: the underlyings and the options
\* of the contract set
Monitored == {cfgs[k].symbol : k \in DOMAIN cfgs} \cup DOMAIN cfgs

\* C35: after any sequence of position refreshes (including the forced
\* refresh at engine construction and the forced refresh at loop start),
\* each monitored instrument key has at most one active subscription record,
\* and no subscription record remains for an instrument that is no longer
\* monitored: the number of records is bounded by the number of monitored
\* underlyings plus options.
C35_OneSubscriptionPerKey ==
    /\ \A r1, r2 \in DOMAIN stream_key_map :
           stream_key_map[r1] = stream_key_map[r2] => r1 = r2
    /\ \A r \in DOMAIN stream_key_map : stream_key_map[r] \in Monitored
    /\ Cardinality(DOMAIN stream_key_map) <= Cardinality(Monitored)

\* C38: the contract set installed by a refresh is derived from a complete
\* position batch (end-of-batch marker received): a position fetch that
\* times out never installs a partial set, and position records that arrive
\* after the fetch returned do not change the list the refresh used.
C38_RefreshUsesCompleteBatch ==
    [][/\ (mt.at = "refresh_wait" /\ mt' = Idle) =>
             IF obs'.positions.timedout THEN cfgs' = cfgs
             ELSE cfgs' # cfgs => cfgs' = LoadFromPositions(account)
       /\ (op' = "position" /\ mt = Idle) =>
             events'.positions = events.positions]_vars

(* Properties of the Blocking Operations *)

\* the requests of kind req and id id among those sent
Requests(log, req, id) ==
    {i \in DOMAIN log : log[i] = [req |-> req, id |-> id]}

\* a blocking call of this name returns in this step
ReturnOf(name) == mt # Idle /\ mt' = Idle /\ op' = name

\* the keys of the ticker dictionary a field of the snapshot result is read from
ResultKeys ==
    [price |-> {"last", "bid", "ask"}, delta |-> {"delta"}, iv |-> {"iv"},
     close |-> {"prev_close", "close"}]

\* get_server_time returns after at most DefaultRetry time requests; when no
\* answer came it sent exactly that many and waited out each of them
TimeRequestsBounded ==
    ReturnOf("get_server_time") =>
        LET asked == Cardinality(Requests(sent', "reqCurrentTime", 0))
                        - Cardinality(Requests(SubSeq(sent, 1, mt.n0),
                                               "reqCurrentTime", 0)) IN
        /\ asked >= 1 /\ asked <= DefaultRetry
        /\ ~obs'.answered =>
               /\ asked = DefaultRetry
               /\ obs'.waited = DefaultRetry * (DefaultTimeout + RetrySleep)

\* an unanswered position fetch, trading-hours query or recent-volume query
\* returns once its timeout has passed, with what it has: the positions
\* received so far, no hours, no trade
QueriesTimeOut ==
    /\ ReturnOf("getPositions") /\ ~obs'.answered =>
           obs'.waited = PositionsTimeout /\ ret' = events.positions
    /\ ReturnOf("get_contract_trading_hours") /\ ~obs'.answered =>
           obs'.waited = HoursTimeout /\ ret' = None
    /\ ReturnOf("check_recent_trades") /\ ~obs'.answered =>
           obs'.waited = TradesTimeout /\ ret' = FALSE

\* the snapshot returns within its timeout, has cancelled its request exactly
\* once, and a field whose ticks never arrived is null in the result
SnapshotCancelsOnce ==
    ReturnOf("snapshot") =>
        /\ obs'.waited <= SnapshotTimeout
        /\ Cardinality(Requests(sent', "cancelMktData", mt.rid)) = 1
        /\ mt.rid \notin DOMAIN tickers'
        /\ \A f \in DOMAIN ResultKeys :
               ResultKeys[f] \cap DOMAIN obs'.data = {} => ret'[f] = None

\* C28: every blocking operation returns even when no broker callback ever
\* arrives: get_server_time issues at most retry time requests and then
\* returns, the position fetch and the trading-hours and recent-volume
\* queries return after their timeout, and the one-shot snapshot cancels its
\* request exactly once and returns a result with nulls for the fields that
\* never arrived
C28_BlockingReturns ==
    /\ (mt # Idle) ~> (mt = Idle)
    /\ [][TimeRequestsBounded /\ QueriesTimeOut /\ SnapshotCancelsOnce]_vars

\* an option snapshot no tick answered has returned after its timeout, its
\* request cancelled, every field null
C28_Witness ==
    /\ op = "snapshot"
    /\ mt = Idle
    /\ obs.is_opt
    /\ obs.data = EmptyDict
    /\ obs.waited = SnapshotTimeout
    /\ ret = [price |-> None, delta |-> None, iv |-> None, close |-> None]
    /\ Cardinality(Requests(sent, "cancelMktData", obs.rid)) = 1

\* C33: under any interleaving of current-time callbacks (including late
\* responses to earlier, timed-out requests) with get_server_time, the call
\* returns a timestamp or null and never fails: whenever an attempt observes
\* the availability signal set, the response queue it pops from is
\* non-empty.
C33_PopsNonEmptyQueue ==
    /\ mt.at = "time_pop" => current_time_queue # << >>
    /\ op = "get_server_time" => ~obs.raised

\* C34: a time value that get_server_time returns as fresh and caches with
\* captured_at = now is always the response to the request issued in that
\* same attempt; a late response to an earlier attempt or call whose wait
\* already timed out is never recorded as the current server time.
C34_FreshIsOwnResponse ==
    [][(mt.at = "time_pop" /\ op' = "get_server_time" /\ obs'.fresh) =>
         /\ ret' = Some(ServerClock(mt.asked))
         /\ last_server_time' = Some(ServerClock(mt.asked))
         /\ server_time_ts' = mono']_vars

(* Properties of the Tick Normalizer *)

\* the tick types of bid, ask, last, high, low, close, prior close and open,
\* live and delayed
PriceLikeFields == {1, 2, 4, 6, 7, 8, 9, 14, 66, 67, 68, 72, 73, 75, 76}

\* the value cached under a field is the same before and after the step, in
\* the per-request store of request id rid and in every snapshot
CachedUnchanged(rid, key) ==
    /\ Lookup(tickers', rid, key) = Lookup(tickers, rid, key)
    /\ \A k \in StreamKeys :
          Lookup(stream_data', k, key) = Lookup(stream_data, k, key)

\* C18: the ids _next_rid hands out are pairwise distinct, also when
\* nextValidId callbacks run between its statements, and the id counter
\* never decreases.
C18_RequestIdsDistinct ==
    [][/\ \A i, j \in DOMAIN handed' : i < j => handed'[i] < handed'[j]
       /\ req_id' >= req_id]_vars

C18_Witness ==
    /\ Len(handed) >= 2
    /\ \E i \in DOMAIN handed :
          i + 1 \in DOMAIN handed /\ handed[i + 1] > handed[i] + 1
    /\ HoldsIdLock(cb)

\* C19: unsubscribe of a registered id removes the id's record and the
\* snapshot of its key (get_stream_data returns an empty mapping) and sends
\* the cancel; unsubscribe of an id that is not registered changes nothing
\* and sends no cancel; a tick that carries an id that is no longer
\* registered leaves the snapshots as they are.
C19_UnsubscribeRemoves ==
    [][/\ op' = "unsubscribe" =>
             IF obs'.reqId \in DOMAIN stream_key_map
             THEN /\ obs'.cancel
                  /\ stream_key_map' = Pop(stream_key_map, obs'.reqId)
                  /\ stream_key_map[obs'.reqId] \notin DOMAIN stream_data'
                  /\ Get(stream_data', stream_key_map[obs'.reqId], EmptyDict)
                        = EmptyDict
             ELSE /\ ~obs'.cancel
                  /\ UNCHANGED <<req_id, storeVars>>
       /\ (op' \in {"tickPrice", "tickSize", "tickGeneric",
                    "tickOptionComputation"}
              /\ obs'.reqId \notin DOMAIN stream_key_map) =>
             stream_data' = stream_data]_vars

\* a tick arrived on an id after its unsubscribe deleted a snapshot
C19_Witness ==
    /\ op \in {"tickPrice", "tickSize", "tickGeneric", "tickOptionComputation"}
    /\ obs.reqId \in IssuedRids \ DOMAIN stream_key_map
    /\ obs.reqId \in DOMAIN tickers
    /\ DOMAIN tickers[obs.reqId] # { }
    /\ stream_data = EmptyDict

\* the fields a tick handler writes, given what it was called with
WrittenFields(o, o_op) ==
    CASE o_op = "tickPrice" ->
           IF o.field \in CheckedPriceFields
                /\ (o.price = PyNone \/ LtZero(o.price))
           THEN { } ELSE {FieldKey(o.field)}
      [] o_op = "tickSize" -> {SizeKey(o.field)}
      [] o_op = "tickGeneric" -> {GenericKey(o.field)}
      [] o_op = "tickOptionComputation" ->
           {k \in GreekKeys : Clean(o.greeks[k]) # PyNone} \cup
           (IF Side(o.field) = "" THEN { }
            ELSE {SideKey(Side(o.field), k) :
                    k \in {x \in SideGreekKeys : Clean(o.greeks[x]) # PyNone}})
      [] OTHER -> { }

\* rid is the only subscription of its key
SoleSubscription(map, rid) ==
    /\ rid \in DOMAIN map
    /\ \A r2 \in DOMAIN map : map[r2] = map[rid] => r2 = rid

\* C20: after a tick on an id that is the only subscription of its key, the
\* snapshot of the key holds, for every field the handler wrote, the value
\* the per-request store holds; a tick on an id that is not registered
\* leaves the snapshot store as it is.
C20_SnapshotMirrorsTick ==
    [][op' \in {"tickPrice", "tickSize", "tickGeneric", "tickOptionComputation"} =>
         /\ SoleSubscription(stream_key_map, obs'.reqId) =>
               \A f \in WrittenFields(obs', op') :
                   /\ stream_key_map[obs'.reqId] \in DOMAIN stream_data'
                   /\ f \in DOMAIN stream_data'[stream_key_map[obs'.reqId]]
                   /\ f \in DOMAIN tickers'[obs'.reqId]
                   /\ stream_data'[stream_key_map[obs'.reqId]][f]
                         = tickers'[obs'.reqId][f]
         /\ obs'.reqId \notin DOMAIN stream_key_map =>
               stream_data' = stream_data]_vars

\* a greek tick without delta on a sole subscription whose snapshot holds
\* the delta of an earlier tick
C20_Witness ==
    /\ op = "tickOptionComputation"
    /\ SoleSubscription(stream_key_map, obs.reqId)
    /\ Clean(obs.greeks.delta) = PyNone
    /\ WrittenFields(obs, op) # { }
    /\ stream_key_map[obs.reqId] \in DOMAIN stream_data
    /\ "delta" \in DOMAIN stream_data[stream_key_map[obs.reqId]]

\* every snapshot key has a subscription record
SnapshotsSubscribed ==
    \A k \in DOMAIN stream_data :
        \E rid \in DOMAIN stream_key_map : stream_key_map[rid] = k

\* C16: however tick callbacks interleave with subscribe and unsubscribe,
\* no tick handler fails on a mapping that was removed while it ran, and
\* whenever neither thread is inside a handler or a registry operation every
\* snapshot key has a live subscription record.
C16_RegistryRaceFree ==
    /\ ~(op = "tickPrice" /\ ret = Some("KeyError"))
    /\ (cb = Idle /\ mt = Idle) => SnapshotsSubscribed

\* C5: a price tick whose value is negative or non-finite on a price-like
\* field leaves the cached value of that field unchanged in the per-request
\* store and in the snapshot store.
C5_InvalidPriceLeavesCacheUnchanged ==
    [][(op' = "tickPrice" /\ obs'.field \in PriceLikeFields
            /\ (LtZero(obs'.price) \/ obs'.price.t \in {"nan", "inf"}))
         => CachedUnchanged(obs'.reqId, FieldKey(obs'.field))]_vars

\* C6: in a greek update, a component equal to -1 or non-finite leaves the
\* cached value of that component unchanged (per-request store and
\* snapshot), and a valid component of the same update is written.
C6_InvalidGreekLeavesCacheUnchanged ==
    [][op' = "tickOptionComputation" =>
         \A c \in GreekKeys :
            LET v == obs'.greeks[c]
                rid == obs'.reqId
            IN /\ (v = Num(-1) \/ v.t \in {"nan", "inf"})
                    => CachedUnchanged(rid, c)
               /\ (v.t = "num" /\ v # Num(-1))
                    => /\ Lookup(tickers', rid, c) = Some(v)
                       /\ rid \in DOMAIN stream_key_map
                            => Lookup(stream_data', stream_key_map[rid], c) = Some(v)]_vars

\* the tick types of each quote side, live and delayed
SideCodes ==
    [bid |-> {10, 80}, ask |-> {11, 81}, last |-> {12, 82},
     model |-> {13, 83}]

\* the components of a greek update kept per side: the implied volatility
\* and the four greeks
SidedComponents == {"iv", "delta", "gamma", "vega", "theta"}

\* v is a number other than the sentinel -1, and finite
ValidGreek(v) == v # PyNone /\ v # Num(-1) /\ v # NaN /\ v # PosInf /\ v # NegInf

\* key holds the same in the per-request stores before and after the step,
\* present or absent
KeyUnchanged(rid, key) ==
    /\ (rid \in DOMAIN tickers /\ key \in DOMAIN tickers[rid])
          <=> key \in DOMAIN tickers'[rid]
    /\ key \in DOMAIN tickers'[rid] => tickers'[rid][key] = tickers[rid][key]

C36_InvalidUpdateKeepsSnapshot ==
    [][(/\ op' = "tickOptionComputation"
        /\ \A c \in GreekKeys : obs'.greeks[c] = Num(-1)
        /\ obs'.reqId \in DOMAIN stream_key_map
        /\ \E other \in DOMAIN stream_key_map \ {obs'.reqId} :
               stream_key_map[other] = stream_key_map[obs'.reqId])
         => Get(stream_data', stream_key_map[obs'.reqId], EmptyDict)
               = Get(stream_data, stream_key_map[obs'.reqId], EmptyDict)]_vars

----------------------------------------------------------------------------
(* Properties of the Session State Machine *)

\* a step in which is_market_open evaluated the session (no early return)
Evaluated == op' = "is_market_open" /\ obs'.evaluated

\* C3: sticky-open.  If the session state was open and every time request of
\* the evaluation times out while the time since the last successful time
\* resolution is under the 15-minute grace window, is_market_open returns
\* the state with is_open still true.
C3_StickyOpen ==
    [][(Evaluated /\ market_status.is_open /\ obs'.time_failed
            /\ last_server_time # None
            /\ obs'.t_time - server_time_ts < StickyGrace)
         => (ret'.is_open /\ market_status'.is_open)]_vars

\* C12: the session state changes only in a step in which is_market_open
\* runs, and is then what is_market_open made it; the engine's status check,
\* is_regular_market_open and the tick handlers leave it as it is.
C12_SessionWrittenByMachineOnly ==
    [][market_status' # market_status =>
         \/ op' = "is_market_open"
         \/ op' = "cycle" /\ obs'.checked /\ market_status' = obs'.session]_vars

\* C11: a call of is_market_open less than 60 seconds after the previous
\* evaluation started sends no request (no time request, no contract-details
\* or historical-data request id is used) and returns the session state as
\* it was; so an evaluation starts at least 60 seconds after the previous one.
C11_RateLimited ==
    [][(op' = "is_market_open" /\ market_status.last_check # None) =>
         IF LocalWall(mono) - Val(market_status.last_check) < RecheckSeconds
         THEN /\ ~obs'.evaluated
              /\ req_id' = req_id
              /\ UNCHANGED <<mono, timeVars, market_status>>
              /\ ret' = market_status
         ELSE obs'.evaluated]_vars

C11_Witness ==
    /\ op = "is_market_open" /\ ~obs.evaluated
    /\ market_status.last_check # None
    /\ market_status.is_open
    /\ ret = market_status

\* C4: whenever the resolved time falls on a Saturday or Sunday in New York,
\* an is_market_open evaluation sets is_open to false, whatever the
\* trading-hours string, the prior state and the recent-trade volume are.
C4_WeekendClosed ==
    [][(Evaluated /\ obs'.resolved # None
            /\ Weekday(EtWall(Val(obs'.resolved))) \in {5, 6})
         => ~market_status'.is_open]_vars

C4_Witness ==
    /\ op = "is_market_open" /\ obs.evaluated
    /\ obs.resolved # None
    /\ Weekday(EtWall(Val(obs.resolved))) = 5
    /\ obs.was_open
    /\ ~market_status.is_open

\* an evaluation that resolved the time to a weekday and obtained a
\* trading-hours description
HoursObtained ==
    /\ Evaluated
    /\ obs'.resolved # None
    /\ ~IsWeekend(EtWall(Val(obs'.resolved)))
    /\ obs'.hours # None
    /\ Val(obs'.hours) # << >>

\* range r is dated the day of the exchange-local time et, is not marked
\* CLOSED, matches the pattern, and et lies in [start, end)
OpenRange(r, et) ==
    LET today == YMD(DayNumber(et))
        edate == IF r.edate # None THEN Val(r.edate) ELSE r.sdate
    IN /\ r.sdate = today
       /\ ~r.closed
       /\ r.wellformed
       /\ TimeOfDay(r.stime \div 100, r.stime % 100) <= SecondOfDay(et)
       /\ \/ edate > today
          \/ /\ edate = today
             /\ SecondOfDay(et) < TimeOfDay(r.etime \div 100, r.etime % 100)

\* C21: on a weekday with a trading-hours description obtained, the parse
\* result is open iff the resolved New York time t satisfies
\* start <= t < end for some range dated today that is not marked CLOSED;
\* ranges dated other days, malformed ranges and CLOSED ranges never make it
\* open.
C21_ParseResult ==
    [][HoursObtained =>
         /\ obs'.parsed # None
         /\ Val(obs'.parsed) <=>
                \E i \in 1..Len(Val(obs'.hours)) :
                    OpenRange(Val(obs'.hours)[i],
                              EtWall(Val(obs'.resolved)))]_vars

\* "20250724:0930-1600" is open at 10:00 on 20250724
C21_Witness ==
    /\ op = "is_market_open" /\ obs.evaluated
    /\ obs.hours = Some(WeekHours)
    /\ obs.resolved # None
    /\ YMD(DayNumber(EtWall(Val(obs.resolved)))) = 20250724
    /\ SecondOfDay(EtWall(Val(obs.resolved))) = TimeOfDay(10, 0)
    /\ obs.parsed = Some(TRUE)

\* what check_recent_trades reports for the bars v: the latest bar has
\* nonzero volume
NonzeroVolume(v) == v # None /\ Val(v) # << >> /\ Val(v)[Len(Val(v))] > 0

\* the exchange-local time et is at most d seconds after the end of a range
\* of hours that is dated the day of et and ends that day
AfterClose(hours, et, d) ==
    \E i \in 1..Len(hours) :
        LET r == hours[i]
            close == TimeOfDay(r.etime \div 100, r.etime % 100)
        IN /\ r.sdate = YMD(DayNumber(et)) /\ ~r.closed /\ r.wellformed
           /\ r.edate \in {None, Some(r.sdate)}
           /\ close <= SecondOfDay(et)
           /\ SecondOfDay(et) <= close + d

\* the precondition of the re-check: the prior state was open and the
\* trading hours obtained now parse as closed
ClosesNow ==
    /\ HoursObtained
    /\ market_status.is_open
    /\ obs'.parsed = Some(FALSE)

C23_FallbackToRecentTrades ==
    [][(Evaluated /\ obs'.resolved # None
          /\ ~IsWeekend(EtWall(Val(obs'.resolved)))
          /\ obs'.hours \in {None, Some(<< >>)})
         => /\ req_id' = req_id + 2
            /\ market_status'.is_open = NonzeroVolume(obs'.volume)
            /\ ret'.is_open = NonzeroVolume(obs'.volume)]_vars

\* the hours query timed out while the state was closed, and the latest bar
\* has volume: the state becomes open
C23_Witness ==
    /\ op = "is_market_open" /\ obs.evaluated
    /\ obs.resolved # None
    /\ ~IsWeekend(EtWall(Val(obs.resolved)))
    /\ obs.hours = None
    /\ ~obs.was_open
    /\ obs.volume = Some(<<500>>)
    /\ market_status.is_open

\* C29: the recent-trade-volume re-check overrides a closed result of the
\* trading-hours parse only when the resolved time lies within a few minutes
\* (five) after the nominal close of today's range; at any other time, such
\* as more than a few minutes after an early close, a closed parse result is
\* committed as closed whatever the volume.
C29_RecheckOnlyAfterClose ==
    [][(ClosesNow
          /\ ~AfterClose(Val(obs'.hours), EtWall(Val(obs'.resolved)), 300))
         => ~market_status'.is_open]_vars

----------------------------------------------------------------------------
\* an evaluation that resolved the time and committed closed
CommitsClosed ==
    /\ Evaluated
    /\ obs'.resolved # None
    /\ ~market_status'.is_open

\* n is 09:30 New York time on the first day after the day of the
\* exchange-local time et that is neither a Saturday nor a Sunday
FirstWeekdayAfter(n, et) ==
    LET day == DayNumber(EtWall(n)) IN
    /\ SecondOfDay(EtWall(n)) = TimeOfDay(9, 30)
    /\ day > DayNumber(et)
    /\ Weekday(day * DaySeconds) \notin {5, 6}
    /\ \A d \in (DayNumber(et) + 1)..(day - 1) :
           Weekday(d * DaySeconds) \in {5, 6}

\* C31: whenever is_market_open commits closed with a resolved time,
\* next_open is 09:30 exchange-local on the first non-weekend calendar day
\* strictly after the resolved date, which is the next Monday when evaluated
\* on a weekend; next_open is never on a weekend and never at or before the
\* resolved time.
C31_NextOpenIsNextWeekday ==
    [][CommitsClosed =>
         LET et == EtWall(Val(obs'.resolved)) IN
         /\ market_status'.next_open # None
         /\ ret'.next_open = market_status'.next_open
         /\ FirstWeekdayAfter(Val(market_status'.next_open), et)
         /\ Weekday(et) \in {5, 6} =>
                /\ Weekday(EtWall(Val(market_status'.next_open))) = 0
                /\ Val(market_status'.next_open) - Val(obs'.resolved)
                       < 3 * DaySeconds
         /\ Val(market_status'.next_open) > Val(obs'.resolved)]_vars

\* on a Friday evening an open session was committed closed and the next
\* open is the Monday after
C31_Witness ==
    /\ op = "is_market_open" /\ obs.evaluated
    /\ obs.resolved # None
    /\ obs.was_open
    /\ ~market_status.is_open
    /\ Weekday(EtWall(Val(obs.resolved))) = 4
    /\ market_status.next_open # None
    /\ Weekday(EtWall(Val(market_status.next_open))) = 0
    /\ DayNumber(EtWall(Val(market_status.next_open)))
           = DayNumber(EtWall(Val(obs.resolved))) + 3

(* Properties of the Server-Time Oracle *)

\* a step in which get_server_time ran and every wait timed out
AllRetriesFailed == op' = "get_server_time" /\ obs'.all_failed
\* the age of the cache that call computed: time.monotonic() - _server_time_ts
AgeAtFailure == mono' - server_time_ts

\* C7: when every retry fails and the age of the cached server time is below
\* soft_cache_age, get_server_time returns exactly the cached value.
C7_SoftCacheReturnsCachedValue ==
    [][(AllRetriesFailed /\ last_server_time # None
            /\ AgeAtFailure < obs'.args.soft_cache_age)
         => ret' = last_server_time]_vars

C7_Witness ==
    /\ op = "get_server_time" /\ obs.all_failed
    /\ last_server_time # None
    /\ mono - server_time_ts < obs.args.soft_cache_age
    /\ ret # None

\* C8: when every retry fails, extrapolation is enabled and the age is at or
\* above soft_cache_age and below the six-hour ceiling, the call returns the
\* cached value plus the monotonic time elapsed since it was captured.
C8_ExtrapolationAddsElapsed ==
    [][(AllRetriesFailed /\ last_server_time # None /\ obs'.args.extrapolate
            /\ AgeAtFailure >= obs'.args.soft_cache_age
            /\ AgeAtFailure < ServerTimeExtrapolateMax)
         => ret' = Some(Val(last_server_time) + AgeAtFailure)]_vars

C8_Witness ==
    /\ op = "get_server_time" /\ obs.all_failed /\ obs.args.extrapolate
    /\ last_server_time # None
    /\ mono - server_time_ts >= obs.args.soft_cache_age
    /\ mono - server_time_ts < ServerTimeExtrapolateMax
    /\ ret # None /\ ret # last_server_time

\* C9: the cached server time and its capture instant change only in a
\* get_server_time call in which a time request was answered.
C9_CacheChangesOnlyOnSuccess ==
    [][(last_server_time' # last_server_time \/ server_time_ts' # server_time_ts)
         => (op' = "get_server_time" /\ ~obs'.all_failed
             /\ last_server_time' = ret' /\ server_time_ts' = mono')]_vars

C9_Witness ==
    /\ op = "get_server_time" /\ obs.all_failed
    /\ last_server_time # None
    /\ obs.path = "extrapolated"

\* C10: when every retry fails, the call returns null if nothing was ever
\* cached, or if neither the soft-cache nor the extrapolation branch applies
\* and the hard ceiling is absent or exceeded; if neither branch applies and
\* a hard ceiling is given with the age below it, the cached value is
\* returned as it is.
C10_HardCacheOrNull ==
    [][AllRetriesFailed =>
         LET a == obs'.args
             fallthrough ==
                 /\ last_server_time # None
                 /\ ~(AgeAtFailure < a.soft_cache_age)
                 /\ ~(a.extrapolate /\ AgeAtFailure < ServerTimeExtrapolateMax)
             below == a.hard_cache_age # None
                        /\ AgeAtFailure < Val(a.hard_cache_age)
         IN /\ last_server_time = None => ret' = None
            /\ (fallthrough /\ ~below) => ret' = None
            /\ (fallthrough /\ below) => ret' = last_server_time]_vars

C10_Witness ==
    /\ op = "get_server_time" /\ obs.all_failed
    /\ last_server_time # None
    /\ obs.args.hard_cache_age # None
    /\ mono - server_time_ts >= obs.args.soft_cache_age
    /\ ~(obs.args.extrapolate /\ mono - server_time_ts < ServerTimeExtrapolateMax)
    /\ mono - server_time_ts < Val(obs.args.hard_cache_age)
    /\ ret = last_server_time

====
